---- MODULE Spec2Model ----
(***************************************************************************)
(* Input handling of the mywayland example clients.                        *)
(*                                                                         *)
(*  - the pointer frame aggregation of waylandbook.example.c: the          *)
(*    wl_pointer listener accumulates the fragments of one frame in        *)
(*    client_state.pointer_event and wl_pointer_frame prints and clears    *)
(*    it;                                                                  *)
(*  - the keymap / state handling of the wl_keyboard listeners of          *)
(*    gettext.c and waylandbook.example.c on top of xkbcommon.             *)
(*                                                                         *)
(* Absent values are written as the empty sequence << >>, present ones as  *)
(* a one-element sequence <<v>>.  A NULL pointer is 0; a keymap or state   *)
(* object is named by its index in the heap sequence that holds it.        *)
(***************************************************************************)
EXTENDS Integers, Sequences, FiniteSets, TLC

VARIABLES
    pc,             \* "dispatch": in the event loop; "crashed": killed by a signal
    prog,           \* which program runs: "gettext" or "waylandbook"
    pointer_event,  \* client_state.pointer_event (waylandbook.example.c:189)
    out,            \* what the handler of the last event wrote to stderr: << >> or <<line>>
    delivered,      \* number of pointer frame lines written so far
    frames,         \* number of wl_pointer.frame events dispatched so far
    oob,            \* TRUE once a handler has accessed memory outside an array
    cur,            \* history: the fragments dispatched since the last frame event
    flushed,        \* history: the fragments that the last frame event covered
    xkb_keymap,     \* globals.keymap (gettext.c:132), client_state.xkb_keymap (:192)
    xkb_state,      \* globals.xkb_state (gettext.c:133), client_state.xkb_state (:190)
    error,          \* globals.error (gettext.c:130)
    heap,           \* the keymap and state objects xkbcommon has allocated
    focused_surface,\* globals.focused_surface (gettext.c:128), 0 for NULL
    calls,          \* the library and system calls the last keyboard handler made, in order
    kh,             \* history: the keyboard events dispatched so far
    wl_pointer,     \* client_state.wl_pointer (:172), globals.pointer (gettext.c:126)
    wl_keyboard,    \* client_state.wl_keyboard (:173), globals.keyboard (gettext.c:125)
    wl_touch,       \* globals.touch (gettext.c:127)
    xkb_context,    \* globals.xkb_context (gettext.c:131), client_state.xkb_context (:191)
    objects,        \* the device proxies and keymap contexts created so far
    dispatch_result, \* what the last wl_display_dispatch call returned
    status,         \* the exit status of the process: << >> while it runs
    compositor,     \* xdg-shell.c:16, the name of the bound global or 0 for NULL
    seat,           \* xdg-shell.c:17
    shm,            \* xdg-shell.c:18
    wm_base,        \* xdg-shell.c:19
    names,          \* the number of globals the registry has announced
    session_lock_manager, \* globals.session_lock_manager (renderlocksession.c:23)
    session_lock,   \* globals.session_lock (renderlocksession.c:24), 0 for NULL
    locked,         \* globals.locked (renderlocksession.c:25)
    locks           \* the lock objects the session lock manager has handed out

ptrVars == <<pointer_event, delivered, frames, oob, cur, flushed>>
kbdVars == <<xkb_keymap, xkb_state, error, heap, focused_surface, calls, kh>>
seatVars == <<wl_pointer, wl_keyboard, wl_touch, xkb_context, objects, dispatch_result, status>>
shellVars == <<compositor, seat, shm, wm_base, names>>
lockVars == <<session_lock_manager, session_lock, locked, locks>>
vars == <<pc, prog, out, pointer_event, delivered, frames, oob, cur, flushed,
          xkb_keymap, xkb_state, error, heap, focused_surface, calls, kh,
          wl_pointer, wl_keyboard, wl_touch, xkb_context, objects, dispatch_result, status,
          compositor, seat, shm, wm_base, names,
          session_lock_manager, session_lock, locked, locks>>

----------------------------------------------------------------------------
(* Bounds of the model. *)

\* the frame counters stop at MaxFrames
MaxFrames == 2

\* xkbcommon compiles at most MaxKeymaps keymaps
MaxKeymaps == 3

\* the event loops are followed over at most MaxLoopKeymaps compiled keymaps
MaxLoopKeymaps == 2

\* the seat hands out at most MaxProxies device proxies
MaxProxies == 4

\* the registry announces at most MaxGlobals globals
MaxGlobals == 4

\* the session lock manager hands out at most MaxLocks lock objects
MaxLocks == 3

----------------------------------------------------------------------------
(* Constants of waylandbook.example.c and of the wl_pointer protocol. *)

POINTER_EVENT_ENTER == 1
POINTER_EVENT_LEAVE == 2
POINTER_EVENT_MOTION == 4
POINTER_EVENT_BUTTON == 8
POINTER_EVENT_AXIS == 16
POINTER_EVENT_AXIS_SOURCE == 32
POINTER_EVENT_AXIS_STOP == 64
POINTER_EVENT_AXIS_DISCRETE == 128

WL_POINTER_BUTTON_STATE_RELEASED == 0

\* the indexes of pointer_event.axes[2]
AxisIndex == {0, 1}

\* char *axis_name[2]
axis_name(i) == IF i = 0 THEN "vertical" ELSE "horizontal"

\* char *axis_source[4]
axis_source_name(s) ==
    CASE s = 0 -> "wheel"
      [] s = 1 -> "finger"
      [] s = 2 -> "continuous"
      [] s = 3 -> "wheel tilt"
      [] OTHER -> "(the bytes behind the table)"

\* wl_fixed_to_double: a 24.8 fixed point number f is the rational f / 256,
\* written here as its floor and the remaining 256ths.
wl_fixed_to_double(f) == [whole |-> f \div 256, frac256 |-> f % 256]

----------------------------------------------------------------------------
(* The inputs the model draws from. *)

Serials == {5}
Times == {10}
Positions == {<<256, 512>>}                 \* (1.0, 2.0)
Buttons == {272}                            \* BTN_LEFT
ButtonStates == {WL_POINTER_BUTTON_STATE_RELEASED, 1}   \* released, pressed
AxisValues == {0, -384}                     \* 0.0 and -1.5
Discretes == {1}
Sources == {0, 1, 2, 3}
BadAxisIndex == {2}
LaterSerials == {5, 6}                      \* for frames with several serials
LaterTimes == {10, 20}                      \* for frames with several times
LaterPositions == {<<256, 512>>, <<512, 256>>}  \* (1.0, 2.0) and (2.0, 1.0)
OtherSources == {1, 4}                      \* finger, and a value after wheel tilt

----------------------------------------------------------------------------
(* struct pointer_event and the frame line. *)

ZeroAxis == [valid |-> FALSE, value |-> 0, discrete |-> 0]

\* memset(event, 0, sizeof(*event)) and struct client_state state = { 0 }
ZeroEvent ==
    [event_mask |-> {}, surface_x |-> 0, surface_y |-> 0, button |-> 0,
     state |-> 0, time |-> 0, serial |-> 0,
     axes |-> [i \in AxisIndex |-> ZeroAxis], axis_source |-> 0]

axis_events ==
    {POINTER_EVENT_AXIS, POINTER_EVENT_AXIS_SOURCE, POINTER_EVENT_AXIS_STOP,
     POINTER_EVENT_AXIS_DISCRETE}

\* what the loop body of wl_pointer_frame prints for axes[i]
AxisReport(event, i) ==
    IF event.event_mask \cap axis_events = {} \/ ~event.axes[i].valid
    THEN << >>
    ELSE << [name |-> axis_name(i),
             value |-> IF POINTER_EVENT_AXIS \in event.event_mask
                       THEN <<wl_fixed_to_double(event.axes[i].value)>> ELSE << >>,
             discrete |-> IF POINTER_EVENT_AXIS_DISCRETE \in event.event_mask
                          THEN <<event.axes[i].discrete>> ELSE << >>,
             via |-> IF POINTER_EVENT_AXIS_SOURCE \in event.event_mask
                     THEN <<axis_source_name(event.axis_source)>> ELSE << >>,
             stopped |-> POINTER_EVENT_AXIS_STOP \in event.event_mask] >>

\* FrameReport as it would be if the motion were printed without the mask test
FrameReport_motion_always(event) ==
    [time |-> event.time,
     entered |-> IF POINTER_EVENT_ENTER \in event.event_mask
                 THEN <<wl_fixed_to_double(event.surface_x),
                        wl_fixed_to_double(event.surface_y)>>
                 ELSE << >>,
     leave |-> POINTER_EVENT_LEAVE \in event.event_mask,
     motion |-> <<wl_fixed_to_double(event.surface_x),
                  wl_fixed_to_double(event.surface_y)>>,
     button |-> IF POINTER_EVENT_BUTTON \in event.event_mask
                THEN <<event.button,
                       IF event.state = WL_POINTER_BUTTON_STATE_RELEASED
                       THEN "released" ELSE "pressed">>
                ELSE << >>,
     axes |-> [i \in AxisIndex |-> AxisReport(event, i)]]

\* the line wl_pointer_frame prints for the pending event
FrameReport(event) ==
    [time |-> event.time,
     entered |-> IF POINTER_EVENT_ENTER \in event.event_mask
                 THEN <<wl_fixed_to_double(event.surface_x),
                        wl_fixed_to_double(event.surface_y)>>
                 ELSE << >>,
     leave |-> POINTER_EVENT_LEAVE \in event.event_mask,
     motion |-> IF POINTER_EVENT_MOTION \in event.event_mask
                THEN <<wl_fixed_to_double(event.surface_x),
                       wl_fixed_to_double(event.surface_y)>>
                ELSE << >>,
     button |-> IF POINTER_EVENT_BUTTON \in event.event_mask
                THEN <<event.button,
                       IF event.state = WL_POINTER_BUTTON_STATE_RELEASED
                       THEN "released" ELSE "pressed">>
                ELSE << >>,
     axes |-> [i \in AxisIndex |-> AxisReport(event, i)]]

----------------------------------------------------------------------------
(* The wl_pointer listener of waylandbook.example.c. *)

wl_pointer_enter(serial, surface_x, surface_y) ==
    /\ pointer_event' =
         [pointer_event EXCEPT
            !.event_mask = @ \cup {POINTER_EVENT_ENTER},
            !.serial = serial,
            !.surface_x = surface_x,
            !.surface_y = surface_y]
    /\ out' = << >>
    /\ UNCHANGED <<delivered, oob, pc>>

\* wl_pointer_leave as it would be if it printed its fragment right away
wl_pointer_leave_prints(serial) ==
    /\ pointer_event' =
         [pointer_event EXCEPT
            !.serial = serial,
            !.event_mask = @ \cup {POINTER_EVENT_LEAVE}]
    /\ out' = <<FrameReport(pointer_event')>>
    /\ delivered' = delivered + 1
    /\ UNCHANGED <<oob, pc>>

wl_pointer_leave(serial) ==
    /\ pointer_event' =
         [pointer_event EXCEPT
            !.serial = serial,
            !.event_mask = @ \cup {POINTER_EVENT_LEAVE}]
    /\ out' = << >>
    /\ UNCHANGED <<delivered, oob, pc>>

\* wl_pointer_motion as it would be if it kept the position of an enter
\* event of the same frame
wl_pointer_motion_afterenter(time, surface_x, surface_y) ==
    /\ pointer_event' =
         [pointer_event EXCEPT
            !.event_mask = @ \cup {POINTER_EVENT_MOTION},
            !.time = time,
            !.surface_x = IF POINTER_EVENT_ENTER \in pointer_event.event_mask
                          THEN @ ELSE surface_x,
            !.surface_y = IF POINTER_EVENT_ENTER \in pointer_event.event_mask
                          THEN @ ELSE surface_y]
    /\ out' = << >>
    /\ UNCHANGED <<delivered, oob, pc>>

\* wl_pointer_motion as it would be with the mask bit of wl_pointer_enter
wl_pointer_motion_enterbit(time, surface_x, surface_y) ==
    /\ pointer_event' =
         [pointer_event EXCEPT
            !.event_mask = @ \cup {POINTER_EVENT_ENTER},
            !.time = time,
            !.surface_x = surface_x,
            !.surface_y = surface_y]
    /\ out' = << >>
    /\ UNCHANGED <<delivered, oob, pc>>

wl_pointer_motion(time, surface_x, surface_y) ==
    /\ pointer_event' =
         [pointer_event EXCEPT
            !.event_mask = @ \cup {POINTER_EVENT_MOTION},
            !.time = time,
            !.surface_x = surface_x,
            !.surface_y = surface_y]
    /\ out' = << >>
    /\ UNCHANGED <<delivered, oob, pc>>

wl_pointer_button(serial, time, button, state) ==
    /\ pointer_event' =
         [pointer_event EXCEPT
            !.event_mask = @ \cup {POINTER_EVENT_BUTTON},
            !.time = time,
            !.serial = serial,
            !.button = button,
            !.state = state]
    /\ out' = << >>
    /\ UNCHANGED <<delivered, oob, pc>>

\* wl_pointer_axis_source as it would be if it marked the vertical axis valid
wl_pointer_axis_source_marks(axis_source) ==
    /\ pointer_event' =
         [pointer_event EXCEPT
            !.event_mask = @ \cup {POINTER_EVENT_AXIS_SOURCE},
            !.axis_source = axis_source,
            !.axes[0].valid = TRUE]
    /\ out' = << >>
    /\ UNCHANGED <<delivered, oob, pc>>

wl_pointer_axis_source(axis_source) ==
    /\ pointer_event' =
         [pointer_event EXCEPT
            !.event_mask = @ \cup {POINTER_EVENT_AXIS_SOURCE},
            !.axis_source = axis_source]
    /\ out' = << >>
    /\ UNCHANGED <<delivered, oob, pc>>

\* A store to pointer_event.axes[axis].  The handlers do not check axis: for an
\* index outside the array the store lands in the memory after it, where
\* axis_source is the next member of the struct and client_state continues
\* behind it.  members are the members of the entry the handler assigns.  That
\* store is undefined behaviour: any value may end up in
\* axis_source and the process may be killed.
AxisStore(event, axis, members) ==
    IF axis \in AxisIndex
    THEN /\ pointer_event' =
              [event EXCEPT !.axes[axis] =
                  [m \in DOMAIN @ |-> IF m \in DOMAIN members THEN members[m] ELSE @[m]]]
         /\ UNCHANGED <<oob, pc>>
    ELSE /\ \E s \in Sources \cup {event.axis_source} :
               pointer_event' = [event EXCEPT !.axis_source = s]
         /\ oob' = TRUE
         /\ pc' \in {"dispatch", "crashed"}

\* wl_pointer_axis as it would be if it kept the value of an axis already valid
wl_pointer_axis_keepfirst(time, axis, value) ==
    /\ AxisStore([pointer_event EXCEPT
                    !.event_mask = @ \cup {POINTER_EVENT_AXIS},
                    !.time = time],
                 axis,
                 IF axis \in AxisIndex /\ pointer_event.axes[axis].valid
                 THEN [valid |-> TRUE]
                 ELSE [valid |-> TRUE, value |-> value])
    /\ out' = << >>
    /\ UNCHANGED delivered

wl_pointer_axis(time, axis, value) ==
    /\ AxisStore([pointer_event EXCEPT
                    !.event_mask = @ \cup {POINTER_EVENT_AXIS},
                    !.time = time],
                 axis, [valid |-> TRUE, value |-> value])
    /\ out' = << >>
    /\ UNCHANGED delivered

\* wl_pointer_axis_stop as it would be without the assignment of the time
wl_pointer_axis_stop_notime(time, axis) ==
    /\ AxisStore([pointer_event EXCEPT
                    !.event_mask = @ \cup {POINTER_EVENT_AXIS_STOP}],
                 axis, [valid |-> TRUE])
    /\ out' = << >>
    /\ UNCHANGED delivered

wl_pointer_axis_stop(time, axis) ==
    /\ AxisStore([pointer_event EXCEPT
                    !.time = time,
                    !.event_mask = @ \cup {POINTER_EVENT_AXIS_STOP}],
                 axis, [valid |-> TRUE])
    /\ out' = << >>
    /\ UNCHANGED delivered

wl_pointer_axis_discrete(axis, discrete) ==
    /\ AxisStore([pointer_event EXCEPT
                    !.event_mask = @ \cup {POINTER_EVENT_AXIS_DISCRETE}],
                 axis, [valid |-> TRUE, discrete |-> discrete])
    /\ out' = << >>
    /\ UNCHANGED delivered

\* wl_pointer_frame as it would be with event->event_mask = 0 for the memset
wl_pointer_frame_maskonly ==
    /\ out' = <<FrameReport(pointer_event)>>
    /\ delivered' = delivered + 1
    /\ pointer_event' = [pointer_event EXCEPT !.event_mask = {}]
    /\ UNCHANGED <<oob, pc>>

\* whether the frame line of the event reads axis_source[event->axis_source]
LooksUpSource(event) ==
    /\ POINTER_EVENT_AXIS_SOURCE \in event.event_mask
    /\ \E i \in AxisIndex : event.axes[i].valid

\* The frame handler does not check event->axis_source: for a value outside
\* the table the read takes the bytes behind it as a pointer to the text to
\* print.  That read is undefined behaviour: the line may carry any text and
\* the process may be killed.
wl_pointer_frame ==
    /\ out' = <<FrameReport(pointer_event)>>
    /\ delivered' = delivered + 1
    /\ pointer_event' = ZeroEvent
    /\ IF LooksUpSource(pointer_event) /\ pointer_event.axis_source \notin 0..3
       THEN /\ oob' = TRUE
            /\ pc' \in {"dispatch", "crashed"}
       ELSE UNCHANGED <<oob, pc>>

----------------------------------------------------------------------------
(* The objects the seat handlers create: the proxies wl_seat_get_pointer,  *)
(* wl_seat_get_keyboard and wl_seat_get_touch return, each live until it   *)
(* is released or destroyed, and the contexts xkb_context_new returns.     *)

NoObjects == [proxies |-> << >>, contexts |-> << >>]

\* wl_seat_get_pointer, wl_seat_get_keyboard, wl_seat_get_touch
NewProxy(o, kind) ==
    [o EXCEPT !.proxies = Append(@, [kind |-> kind, live |-> TRUE, destroys |-> 0])]

\* wl_pointer_release, wl_keyboard_release, wl_*_destroy
DestroyProxy(o, proxy) ==
    [o EXCEPT !.proxies[proxy].live = FALSE, !.proxies[proxy].destroys = @ + 1]

\* xkb_context_new
NewContext(o) ==
    [o EXCEPT !.contexts = Append(@, [refcnt |-> 1, unrefs |-> 0])]

\* xkb_context_unref
xkb_context_unref(o, context) ==
    [o EXCEPT !.contexts[context].refcnt = @ - 1, !.contexts[context].unrefs = @ + 1]

\* events for a device reach its listener while a proxy of the device exists
Attached(kind) ==
    \E i \in DOMAIN objects.proxies :
        objects.proxies[i].kind = kind /\ objects.proxies[i].live

----------------------------------------------------------------------------
(* History of the frame being accumulated: which fragments the display     *)
(* connection has dispatched since the last frame event, with the          *)
(* arguments it passed.  The handlers never read it.                       *)

NoAxis == [i \in AxisIndex |-> << >>]

\* time, serial: the last time and serial argument; times, serials: all of
\* them; pos: the last position argument; poss: every position with the kind
\* of the call that carried it
NoFragments ==
    [calls |-> {}, pos |-> << >>, poss |-> {}, btn |-> << >>, first |-> NoAxis,
     last |-> NoAxis, disc |-> NoAxis, stop |-> {}, src |-> << >>,
     time |-> << >>, times |-> {}, serial |-> << >>, serials |-> {}]

Called(kind) == [cur EXCEPT !.calls = @ \cup {kind}]

\* the history after a fragment of this kind that carries a time, a serial
\* or both
Timed(kind, t) == [Called(kind) EXCEPT !.time = <<t>>, !.times = @ \cup {t}]
Serialed(kind, s) == [Called(kind) EXCEPT !.serial = <<s>>, !.serials = @ \cup {s}]
TimedSerialed(kind, t, s) ==
    [Called(kind) EXCEPT !.time = <<t>>, !.times = @ \cup {t},
                         !.serial = <<s>>, !.serials = @ \cup {s}]

Fragment(h) == /\ cur' = h
               /\ flushed' = << >>
               /\ UNCHANGED <<frames, prog>>
               /\ UNCHANGED <<kbdVars, seatVars, shellVars, lockVars>>

----------------------------------------------------------------------------
(* The events the display connection dispatches to the wl_pointer listener. *)

\* the wl_pointer listener of waylandbook.example.c gets events while a
\* pointer proxy exists
Running == pc = "dispatch" /\ prog = "waylandbook" /\ Attached("pointer")

\* the events with their serials and times drawn from the given sets
PtrEnterIn(serials, positions) ==
    /\ Running
    /\ \E s \in serials, p \in positions :
          /\ wl_pointer_enter(s, p[1], p[2])
          /\ Fragment([Serialed("enter", s) EXCEPT !.pos = <<p>>,
                                                  !.poss = @ \cup {<<"enter", p>>}])

PtrLeaveIn(serials) ==
    /\ Running
    /\ \E s \in serials :
          /\ wl_pointer_leave(s)
          /\ Fragment(Serialed("leave", s))

PtrMotionIn(times, positions) ==
    /\ Running
    /\ \E t \in times, p \in positions :
          /\ wl_pointer_motion(t, p[1], p[2])
          /\ Fragment([Timed("motion", t) EXCEPT !.pos = <<p>>,
                                                !.poss = @ \cup {<<"motion", p>>}])

PtrButtonIn(serials, times) ==
    /\ Running
    /\ \E s \in serials, t \in times, b \in Buttons, st \in ButtonStates :
          /\ wl_pointer_button(s, t, b, st)
          /\ Fragment([TimedSerialed("button", t, s) EXCEPT !.btn = <<b, st>>])

PtrAxisIn(times, values) ==
    /\ Running
    /\ \E t \in times, a \in AxisIndex, v \in values :
          /\ wl_pointer_axis(t, a, v)
          /\ Fragment([Timed("axis", t) EXCEPT
                          !.first[a] = IF @ = << >> THEN <<v>> ELSE @,
                          !.last[a] = <<v>>])

PtrAxisStopIn(times) ==
    /\ Running
    /\ \E t \in times, a \in AxisIndex :
          /\ wl_pointer_axis_stop(t, a)
          /\ Fragment([Timed("axis_stop", t) EXCEPT !.stop = @ \cup {a}])

PtrEnter == PtrEnterIn(Serials, Positions)

PtrLeave == PtrLeaveIn(Serials)

PtrMotion == PtrMotionIn(Times, Positions)

PtrButton == PtrButtonIn(Serials, Times)

PtrAxis == PtrAxisIn(Times, AxisValues)

PtrAxisSourceIn(sources) ==
    /\ Running
    /\ \E s \in sources :
          /\ wl_pointer_axis_source(s)
          /\ Fragment([Called("axis_source") EXCEPT !.src = <<s>>])

PtrAxisSource == PtrAxisSourceIn(Sources)

PtrAxisStop == PtrAxisStopIn(Times)

PtrAxisDiscrete ==
    /\ Running
    /\ \E a \in AxisIndex, d \in Discretes :
          /\ wl_pointer_axis_discrete(a, d)
          /\ Fragment([Called("axis_discrete") EXCEPT !.disc[a] = <<d>>])

PtrFrame ==
    /\ Running
    /\ frames < MaxFrames
    /\ wl_pointer_frame
    /\ frames' = frames + 1
    /\ flushed' = <<cur>>
    /\ cur' = NoFragments
    /\ UNCHANGED prog
    /\ UNCHANGED <<kbdVars, seatVars, shellVars, lockVars>>

\* an axis, axis_stop or axis_discrete event whose axis is neither
\* WL_POINTER_AXIS_VERTICAL_SCROLL nor WL_POINTER_AXIS_HORIZONTAL_SCROLL
PtrBadAxis ==
    /\ Running
    /\ \E a \in BadAxisIndex :
          \/ \E t \in Times, v \in AxisValues : wl_pointer_axis(t, a, v)
          \/ \E t \in Times : wl_pointer_axis_stop(t, a)
          \/ \E d \in Discretes : wl_pointer_axis_discrete(a, d)
    /\ Fragment(Called("bad_axis"))

----------------------------------------------------------------------------
(* xkbcommon, as the keyboard listeners use it.  A keymap object holds the *)
(* table compiled from the keymap text and a reference count; a state      *)
(* object holds a reference to its keymap and the modifier masks.  unrefs  *)
(* counts the unref calls the program made on the object.                  *)

XKB_KEY_BackSpace == 65288
WL_KEYBOARD_KEY_STATE_PRESSED == 1
WL_KEYBOARD_KEYMAP_FORMAT_XKB_V1 == 1

\* The keymap texts a keymap event may carry: a US and a French layout and a
\* text that is no keymap.  Each table maps an XKB keycode to the keysyms of
\* its two shift levels.
KeymapTexts == {"us", "fr", "malformed"}

UsKeys ==
    (14 :> <<53, 37>>) @@ (22 :> <<65288, 65288>>) @@ (30 :> <<117, 85>>) @@
    (38 :> <<97, 65>>) @@ (46 :> <<108, 76>>)

FrKeys ==
    (14 :> <<40, 53>>) @@ (22 :> <<65288, 65288>>) @@ (30 :> <<117, 85>>) @@
    (38 :> <<113, 81>>) @@ (46 :> <<108, 76>>)

\* xkb_keymap_new_from_string: the compiled table, or nothing on failure
Compile(text) ==
    CASE text = "us" -> <<UsKeys>>
      [] text = "fr" -> <<FrKeys>>
      [] OTHER -> << >>

\* xkb_keysym_get_name
KeysymName(sym) ==
    CASE sym = 0 -> "NoSymbol"
      [] sym = 65288 -> "BackSpace"
      [] sym = 37 -> "percent"
      [] sym = 40 -> "parenleft"
      [] sym = 53 -> "5"
      [] sym = 65 -> "A"
      [] sym = 76 -> "L"
      [] sym = 81 -> "Q"
      [] sym = 85 -> "U"
      [] sym = 97 -> "a"
      [] sym = 108 -> "l"
      [] sym = 113 -> "q"
      [] sym = 117 -> "u"

\* the UTF-8 text of a keysym (xkb_state_key_get_utf8)
KeysymUtf8(sym) ==
    CASE sym = 0 -> ""
      [] sym = 65288 -> "\\b"
      [] sym = 37 -> "%"
      [] sym = 40 -> "("
      [] OTHER -> KeysymName(sym)

NoMods == [depressed |-> {}, latched |-> {}, locked |-> {}, group |-> 0]
ShiftDown == [depressed |-> {0}, latched |-> {}, locked |-> {}, group |-> 0]
CapsLocked == [depressed |-> {}, latched |-> {}, locked |-> {1}, group |-> 1]
ModMasks == {ShiftDown, CapsLocked}

\* the shift level the modifier masks select: Shift is modifier bit 0
Level(mods) ==
    IF 0 \in mods.depressed \cup mods.latched \cup mods.locked THEN 2 ELSE 1

EmptyHeap == [keymaps |-> << >>, states |-> << >>]

\* a new keymap object, holding one reference for the caller
NewKeymap(h, table) ==
    [h EXCEPT !.keymaps = Append(@, [table |-> table, refcnt |-> 1, unrefs |-> 0])]

\* NewState as it would be if the new state started from the masks of the
\* state created before it
NewState_keepmods(h, keymap) ==
    [h EXCEPT !.states = Append(@, [keymap |-> keymap, refcnt |-> 1, unrefs |-> 0,
                                    mods |-> IF h.states = << >> THEN NoMods
                                             ELSE h.states[Len(h.states)].mods]),
              !.keymaps[keymap].refcnt = @ + 1]

\* xkb_state_new(keymap): the new state takes a reference to its keymap
NewState(h, keymap) ==
    [h EXCEPT !.states = Append(@, [keymap |-> keymap, refcnt |-> 1,
                                    unrefs |-> 0, mods |-> NoMods]),
              !.keymaps[keymap].refcnt = @ + 1]

\* one reference to a keymap is dropped; the last one frees the keymap and
\* with it its table
DropKeymapRef(h, keymap) ==
    IF h.keymaps[keymap].refcnt = 1
    THEN [h EXCEPT !.keymaps[keymap].refcnt = 0, !.keymaps[keymap].table = << >>]
    ELSE [h EXCEPT !.keymaps[keymap].refcnt = @ - 1]

\* xkb_keymap_unref(keymap): nothing for NULL
xkb_keymap_unref(h, keymap) ==
    IF keymap = 0 THEN h
    ELSE [DropKeymapRef(h, keymap) EXCEPT !.keymaps[keymap].unrefs = @ + 1]

\* xkb_state_unref(state): nothing for NULL; the last reference frees the
\* state and its masks, which drops its reference to the keymap
xkb_state_unref(h, state) ==
    IF state = 0 THEN h
    ELSE IF h.states[state].refcnt = 1
         THEN [DropKeymapRef(h, h.states[state].keymap)
                  EXCEPT !.states[state].refcnt = 0,
                         !.states[state].unrefs = @ + 1,
                         !.states[state].mods = NoMods]
         ELSE [h EXCEPT !.states[state].refcnt = @ - 1,
                        !.states[state].unrefs = @ + 1]

\* xkb_state_update_mask as it would be if it added the new masks to the old
xkb_state_update_mask_merge(h, state, mods) ==
    [h EXCEPT !.states[state].mods =
        [depressed |-> @.depressed \cup mods.depressed,
         latched |-> @.latched \cup mods.latched,
         locked |-> @.locked \cup mods.locked,
         group |-> mods.group]]

\* xkb_state_update_mask(state, depressed, latched, locked, 0, 0, group)
xkb_state_update_mask(h, state, mods) ==
    [h EXCEPT !.states[state].mods = mods]

\* xkb_state_key_get_syms(state, keycode, &syms)
xkb_state_key_get_syms(h, state, keycode) ==
    LET st == h.states[state]
        table == h.keymaps[st.keymap].table
    IN  IF keycode \in DOMAIN table THEN <<table[keycode][Level(st.mods)]>> ELSE << >>

\* xkb_state_key_get_one_sym(state, keycode)
xkb_state_key_get_one_sym(h, state, keycode) ==
    LET syms == xkb_state_key_get_syms(h, state, keycode)
    IN  IF Len(syms) = 1 THEN syms[1] ELSE 0     \* XKB_KEY_NoSymbol

----------------------------------------------------------------------------
(* The wl_keyboard listener of gettext.c.  mapped: mmap succeeded; text:   *)
(* what the file descriptor holds; stateOK: xkb_state_new can allocate.    *)

\* the file descriptor a keymap event delivers
fd == 3

\* one entry of calls: the function called and the argument that matters
Call(op, arg) == [op |-> op, arg |-> arg]

Pressed(state) == IF state = WL_KEYBOARD_KEY_STATE_PRESSED THEN "pressed" ELSE "released"

\* ReplacePair as it would be if the new pair were stored only once the state
\* exists, with the return on a failed xkb_state_new before the stores
ReplacePair_checkfirst(table, stateOK) ==
    LET h1 == NewKeymap(heap, table)
        keymap == Len(h1.keymaps)
        h2 == xkb_state_unref(h1, xkb_state)
        h3 == xkb_keymap_unref(h2, xkb_keymap)
    IN  IF stateOK
        THEN /\ xkb_keymap' = keymap
             /\ heap' = NewState(h3, keymap)
             /\ xkb_state' = Len(heap'.states)
             /\ UNCHANGED error
        ELSE /\ heap' = h3
             /\ error' = TRUE
             /\ UNCHANGED <<xkb_keymap, xkb_state>>

\* lines 165-178 of keyboard_handle_keymap, after a successful compile
ReplacePair(table, stateOK) ==
    LET h1 == NewKeymap(heap, table)
        keymap == Len(h1.keymaps)
        h2 == xkb_state_unref(h1, xkb_state)
        h3 == xkb_keymap_unref(h2, xkb_keymap)
    IN  /\ xkb_keymap' = keymap
        /\ IF stateOK
           THEN /\ heap' = NewState(h3, keymap)
                /\ xkb_state' = Len(heap'.states)
                /\ UNCHANGED error
           ELSE /\ heap' = h3
                /\ xkb_state' = 0
                /\ error' = TRUE

\* the calls of lines 165-174, in their order; the assignment of line 173 is
\* listed as "store"
ReplacePairCalls ==
    (IF xkb_state # 0 THEN <<Call("xkb_state_unref", xkb_state)>> ELSE << >>)
    \o (IF xkb_keymap # 0 THEN <<Call("xkb_keymap_unref", xkb_keymap)>> ELSE << >>)
    \o <<Call("store", Len(heap.keymaps) + 1),
         Call("xkb_state_new", Len(heap.keymaps) + 1)>>

\* the calls of lines 147-157 when mmap succeeds
MapAndCompile ==
    <<Call("mmap", fd), Call("xkb_keymap_new_from_string", fd),
      Call("munmap", fd), Call("close", fd)>>

\* keyboard_handle_keymap as it would be if the mapping were released only
\* after the pair has been replaced
keyboard_handle_keymap_munmap_last(format, mapped, text, stateOK) ==
    /\ out' = << >>
    /\ UNCHANGED <<pc, focused_surface>>
    /\ IF ~mapped
       THEN /\ calls' = <<Call("mmap", fd), Call("close", fd)>>
            /\ UNCHANGED <<xkb_keymap, xkb_state, heap, error>>
       ELSE IF Compile(text) = << >>
            THEN /\ calls' = MapAndCompile
                 /\ error' = TRUE
                 /\ UNCHANGED <<xkb_keymap, xkb_state, heap>>
            ELSE /\ calls' = <<Call("mmap", fd), Call("xkb_keymap_new_from_string", fd),
                               Call("close", fd)>>
                              \o ReplacePairCalls \o <<Call("munmap", fd)>>
                 /\ ReplacePair(Compile(text)[1], stateOK)

keyboard_handle_keymap(format, mapped, text, stateOK) ==
    /\ out' = << >>
    /\ UNCHANGED <<pc, focused_surface>>
    /\ IF ~mapped
       THEN \* lines 148-152
            /\ calls' = <<Call("mmap", fd), Call("close", fd)>>
            /\ UNCHANGED <<xkb_keymap, xkb_state, heap, error>>
       ELSE IF Compile(text) = << >>
            THEN /\ calls' = MapAndCompile
                 /\ error' = TRUE
                 /\ UNCHANGED <<xkb_keymap, xkb_state, heap>>
            ELSE /\ calls' = MapAndCompile \o ReplacePairCalls
                 /\ ReplacePair(Compile(text)[1], stateOK)

\* keyboard_handle_key as it would be if resolving a key released the
\* modifiers of the state
keyboard_handle_key_clearmods(key, state) ==
    /\ UNCHANGED <<xkb_keymap, xkb_state, error, focused_surface>>
    /\ IF xkb_state = 0
       THEN /\ pc' = "crashed"
            /\ out' = << >>
            /\ calls' = <<Call("xkb_state_key_get_syms", key + 8)>>
            /\ UNCHANGED heap
       ELSE LET keycode == key + 8
                syms == xkb_state_key_get_syms(heap, xkb_state, keycode)
            IN  /\ UNCHANGED pc
                /\ heap' = xkb_state_update_mask(heap, xkb_state, NoMods)
                /\ calls' = <<Call("xkb_state_key_get_syms", keycode)>>
                             \o (IF Len(syms) > 0 /\ syms[1] # XKB_KEY_BackSpace
                                 THEN <<Call("xkb_keysym_get_name", syms[1])>> ELSE << >>)
                /\ out' = IF Len(syms) > 0
                          THEN IF syms[1] = XKB_KEY_BackSpace
                               THEN <<[what |-> "Backspace", state |-> Pressed(state)]>>
                               ELSE <<[what |-> "Key", name |-> KeysymName(syms[1]),
                                       state |-> Pressed(state)]>>
                          ELSE << >>

\* keyboard_handle_key as it would be without the comparison with
\* XKB_KEY_BackSpace
keyboard_handle_key_byname(key, state) ==
    /\ UNCHANGED <<xkb_keymap, xkb_state, heap, error, focused_surface>>
    /\ IF xkb_state = 0
       THEN /\ pc' = "crashed"
            /\ out' = << >>
            /\ calls' = <<Call("xkb_state_key_get_syms", key + 8)>>
       ELSE LET keycode == key + 8
                syms == xkb_state_key_get_syms(heap, xkb_state, keycode)
            IN  /\ UNCHANGED pc
                /\ calls' = <<Call("xkb_state_key_get_syms", keycode)>>
                             \o (IF Len(syms) > 0
                                 THEN <<Call("xkb_keysym_get_name", syms[1])>> ELSE << >>)
                /\ out' = IF Len(syms) > 0
                          THEN <<[what |-> "Key", name |-> KeysymName(syms[1]),
                                  state |-> Pressed(state)]>>
                          ELSE << >>

\* keyboard_handle_key as it would be without the test of num_syms: syms[0]
\* of an empty list is whatever the pointer was left as
keyboard_handle_key_nocheck(key, state) ==
    /\ UNCHANGED <<xkb_keymap, xkb_state, heap, error, focused_surface>>
    /\ IF xkb_state = 0
       THEN /\ pc' = "crashed"
            /\ out' = << >>
            /\ calls' = <<Call("xkb_state_key_get_syms", key + 8)>>
       ELSE LET keycode == key + 8
                syms == xkb_state_key_get_syms(heap, xkb_state, keycode)
                sym0 == IF Len(syms) > 0 THEN syms[1] ELSE 0
            IN  /\ UNCHANGED pc
                /\ calls' = <<Call("xkb_state_key_get_syms", keycode)>>
                             \o (IF sym0 # XKB_KEY_BackSpace
                                 THEN <<Call("xkb_keysym_get_name", sym0)>> ELSE << >>)
                /\ out' = IF sym0 = XKB_KEY_BackSpace
                          THEN <<[what |-> "Backspace", state |-> Pressed(state)]>>
                          ELSE <<[what |-> "Key", name |-> KeysymName(sym0),
                                  state |-> Pressed(state)]>>

keyboard_handle_key(key, state) ==
    /\ UNCHANGED <<xkb_keymap, xkb_state, heap, error, focused_surface>>
    /\ IF xkb_state = 0
       THEN \* xkb_state_key_get_syms reads through the NULL state
            /\ pc' = "crashed"
            /\ out' = << >>
            /\ calls' = <<Call("xkb_state_key_get_syms", key + 8)>>
       ELSE LET keycode == key + 8
                syms == xkb_state_key_get_syms(heap, xkb_state, keycode)
            IN  /\ UNCHANGED pc
                /\ calls' = <<Call("xkb_state_key_get_syms", keycode)>>
                             \o (IF Len(syms) > 0 /\ syms[1] # XKB_KEY_BackSpace
                                 THEN <<Call("xkb_keysym_get_name", syms[1])>> ELSE << >>)
                /\ out' = IF Len(syms) > 0
                          THEN IF syms[1] = XKB_KEY_BackSpace
                               THEN <<[what |-> "Backspace", state |-> Pressed(state)]>>
                               ELSE <<[what |-> "Key", name |-> KeysymName(syms[1]),
                                       state |-> Pressed(state)]>>
                          ELSE << >>

\* the keys array of the event is not read
keyboard_handle_enter(surface, keys) ==
    /\ focused_surface' = surface
    /\ out' = <<[what |-> "Keyboard entered a surface"]>>
    /\ calls' = << >>
    /\ UNCHANGED <<pc, xkb_keymap, xkb_state, heap, error>>

\* keyboard_handle_leave as it would be without the assignment of NULL
keyboard_handle_leave_keeps(surface) ==
    /\ out' = <<[what |-> "Keyboard left a surface"]>>
    /\ calls' = << >>
    /\ UNCHANGED <<pc, xkb_keymap, xkb_state, heap, error, focused_surface>>

keyboard_handle_leave(surface) ==
    /\ focused_surface' = 0
    /\ out' = <<[what |-> "Keyboard left a surface"]>>
    /\ calls' = << >>
    /\ UNCHANGED <<pc, xkb_keymap, xkb_state, heap, error>>

keyboard_handle_modifiers(mods) ==
    /\ UNCHANGED <<xkb_keymap, xkb_state, error, focused_surface>>
    /\ out' = << >>
    /\ calls' = <<Call("xkb_state_update_mask", xkb_state)>>
    /\ IF xkb_state = 0
       THEN \* xkb_state_update_mask writes through the NULL state
            /\ pc' = "crashed"
            /\ UNCHANGED heap
       ELSE /\ heap' = xkb_state_update_mask(heap, xkb_state, mods)
            /\ UNCHANGED pc

----------------------------------------------------------------------------
(* The wl_keyboard listener of waylandbook.example.c. *)

\* StorePair as it would be without the xkb_state_unref of the old state
StorePair_keepstate(h1, keymap, stateOK) ==
    \/ /\ keymap = 0
       /\ pc' = "crashed"
       /\ UNCHANGED <<xkb_keymap, xkb_state, heap>>
    \/ /\ keymap = 0 \/ ~stateOK
       /\ heap' = xkb_keymap_unref(h1, xkb_keymap)
       /\ xkb_keymap' = keymap
       /\ xkb_state' = 0
       /\ UNCHANGED pc
    \/ /\ keymap # 0 /\ stateOK
       /\ LET h2 == NewState(h1, keymap)
          IN  /\ heap' = xkb_keymap_unref(h2, xkb_keymap)
              /\ xkb_keymap' = keymap
              /\ xkb_state' = Len(h2.states)
       /\ UNCHANGED pc

\* lines 520-524 of wl_keyboard_keymap; keymap is 0 after a failed compile,
\* and xkb_state_new(NULL) either reads through the NULL keymap or fails
StorePair(h1, keymap, stateOK) ==
    \/ /\ keymap = 0
       /\ pc' = "crashed"
       /\ UNCHANGED <<xkb_keymap, xkb_state, heap>>
    \/ /\ keymap = 0 \/ ~stateOK
       /\ heap' = xkb_state_unref(xkb_keymap_unref(h1, xkb_keymap), xkb_state)
       /\ xkb_keymap' = keymap
       /\ xkb_state' = 0
       /\ UNCHANGED pc
    \/ /\ keymap # 0 /\ stateOK
       /\ LET h2 == NewState(h1, keymap)
          IN  /\ heap' = xkb_state_unref(xkb_keymap_unref(h2, xkb_keymap), xkb_state)
              /\ xkb_keymap' = keymap
              /\ xkb_state' = Len(h2.states)
       /\ UNCHANGED pc

\* the calls of lines 521-524 (line 520 is in wl_keyboard_keymap), the
\* assignments listed as "store"
StorePairCalls(keymap) ==
    <<Call("xkb_keymap_unref", xkb_keymap), Call("xkb_state_unref", xkb_state),
      Call("store", keymap)>>

wl_keyboard_keymap(format, mapped, text, stateOK) ==
    /\ out' = << >>
    /\ UNCHANGED <<error, focused_surface>>
    /\ IF format # WL_KEYBOARD_KEYMAP_FORMAT_XKB_V1
       THEN \* the assert of line 509 fails: abort()
            /\ pc' = "crashed"
            /\ calls' = << >>
            /\ UNCHANGED <<xkb_keymap, xkb_state, heap>>
       ELSE IF ~mapped
       THEN \* the assert of line 512 fails: abort()
            /\ pc' = "crashed"
            /\ calls' = <<Call("mmap", fd)>>
            /\ UNCHANGED <<xkb_keymap, xkb_state, heap>>
       ELSE LET h1 == IF Compile(text) = << >> THEN heap
                      ELSE NewKeymap(heap, Compile(text)[1])
                keymap == IF Compile(text) = << >> THEN 0 ELSE Len(h1.keymaps)
                done == <<Call("mmap", fd), Call("xkb_keymap_new_from_string", fd),
                          Call("munmap", fd), Call("close", fd),
                          Call("xkb_state_new", keymap)>>
            IN  /\ StorePair(h1, keymap, stateOK)
                /\ calls' = IF pc' = "crashed" THEN done
                            ELSE done \o StorePairCalls(keymap)

\* wl_keyboard_key as it would be with the hardware code as the keycode
wl_keyboard_key_nooffset(key, state) ==
    /\ UNCHANGED <<xkb_keymap, xkb_state, heap, error, focused_surface>>
    /\ IF xkb_state = 0
       THEN /\ pc' = "crashed"
            /\ out' = << >>
            /\ calls' = <<Call("xkb_state_key_get_one_sym", key)>>
       ELSE LET keycode == key
                sym == xkb_state_key_get_one_sym(heap, xkb_state, keycode)
            IN  /\ UNCHANGED pc
                /\ calls' = <<Call("xkb_state_key_get_one_sym", keycode),
                              Call("xkb_keysym_get_name", sym),
                              Call("xkb_state_key_get_utf8", keycode)>>
                /\ out' = <<[what |-> "key",
                             action |-> IF state = WL_KEYBOARD_KEY_STATE_PRESSED
                                        THEN "press" ELSE "release",
                             name |-> KeysymName(sym),
                             sym |-> sym,
                             utf8 |-> KeysymUtf8(
                                 xkb_state_key_get_one_sym(heap, xkb_state, keycode))]>>

wl_keyboard_key(key, state) ==
    /\ UNCHANGED <<xkb_keymap, xkb_state, heap, error, focused_surface>>
    /\ IF xkb_state = 0
       THEN \* xkb_state_key_get_one_sym reads through the NULL state
            /\ pc' = "crashed"
            /\ out' = << >>
            /\ calls' = <<Call("xkb_state_key_get_one_sym", key + 8)>>
       ELSE LET keycode == key + 8
                sym == xkb_state_key_get_one_sym(heap, xkb_state, keycode)
            IN  /\ UNCHANGED pc
                /\ calls' = <<Call("xkb_state_key_get_one_sym", keycode),
                              Call("xkb_keysym_get_name", sym),
                              Call("xkb_state_key_get_utf8", keycode)>>
                /\ out' = <<[what |-> "key",
                             action |-> IF state = WL_KEYBOARD_KEY_STATE_PRESSED
                                        THEN "press" ELSE "release",
                             name |-> KeysymName(sym),
                             sym |-> sym,
                             utf8 |-> KeysymUtf8(
                                 xkb_state_key_get_one_sym(heap, xkb_state, keycode))]>>

\* the lines one pressed key of a keyboard-enter event produces (476-482)
EnterLine(key) ==
    LET sym == xkb_state_key_get_one_sym(heap, xkb_state, key + 8)
    IN  [what |-> "sym", name |-> KeysymName(sym), sym |-> sym,
         utf8 |-> KeysymUtf8(xkb_state_key_get_one_sym(heap, xkb_state, key + 8))]

\* the calls one pressed key of a keyboard-enter event makes (476-481)
EnterCalls(key) ==
    <<Call("xkb_state_key_get_one_sym", key + 8),
      Call("xkb_keysym_get_name", xkb_state_key_get_one_sym(heap, xkb_state, key + 8)),
      Call("xkb_state_key_get_utf8", key + 8)>>

wl_keyboard_enter(surface, keys) ==
    /\ UNCHANGED <<xkb_keymap, xkb_state, heap, error, focused_surface>>
    /\ IF keys # << >> /\ xkb_state = 0
       THEN \* the first xkb_state_key_get_one_sym reads through the NULL state
            /\ pc' = "crashed"
            /\ out' = <<[what |-> "keyboard enter"]>>
            /\ calls' = <<Call("xkb_state_key_get_one_sym", keys[1] + 8)>>
       ELSE /\ UNCHANGED pc
            /\ out' = <<[what |-> "keyboard enter"]>>
                      \o [i \in 1..Len(keys) |-> EnterLine(keys[i])]
            /\ calls' = [n \in 1..(3 * Len(keys)) |->
                            EnterCalls(keys[(n + 2) \div 3])[((n - 1) % 3) + 1]]

wl_keyboard_leave(surface) ==
    /\ out' = <<[what |-> "keyboard leave"]>>
    /\ calls' = << >>
    /\ UNCHANGED <<pc, xkb_keymap, xkb_state, heap, error, focused_surface>>

wl_keyboard_modifiers(mods) ==
    /\ UNCHANGED <<xkb_keymap, xkb_state, error, focused_surface>>
    /\ out' = << >>
    /\ calls' = <<Call("xkb_state_update_mask", xkb_state)>>
    /\ IF xkb_state = 0
       THEN \* xkb_state_update_mask writes through the NULL state
            /\ pc' = "crashed"
            /\ UNCHANGED heap
       ELSE /\ heap' = xkb_state_update_mask(heap, xkb_state, mods)
            /\ UNCHANGED pc

----------------------------------------------------------------------------
(* The wl_seat listeners: seat_handle_capabilities of gettext.c and        *)
(* wl_seat_capabilities of waylandbook.example.c.  A capabilities event    *)
(* carries a bit mask of the devices the seat has.                         *)

WL_SEAT_CAPABILITY_POINTER == 1
WL_SEAT_CAPABILITY_KEYBOARD == 2
WL_SEAT_CAPABILITY_TOUCH == 4

\* caps & capability
Has(caps, capability) == (caps \div capability) % 2 = 1

\* gettext.c: every event with the keyboard bit gets a new keyboard proxy and
\* a new context, whatever the fields held; one without it forgets the
\* keyboard and sets the error flag; a context that cannot be created sets
\* the error flag and returns before the pointer and the touch bits are read
seat_handle_capabilities(caps, ctxOK) ==
    LET kbd == Has(caps, WL_SEAT_CAPABILITY_KEYBOARD)
        ptr == Has(caps, WL_SEAT_CAPABILITY_POINTER)
        tch == Has(caps, WL_SEAT_CAPABILITY_TOUCH)
        early == kbd /\ ~ctxOK
        o1 == IF kbd THEN NewProxy(objects, "keyboard") ELSE objects
        o2 == IF kbd /\ ctxOK THEN NewContext(o1) ELSE o1
        o3 == IF ~early /\ ptr THEN NewProxy(o2, "pointer") ELSE o2
        o4 == IF ~early /\ tch THEN NewProxy(o3, "touch") ELSE o3
    IN  /\ objects' = o4
        /\ wl_keyboard' = IF kbd THEN Len(o1.proxies) ELSE 0
        /\ xkb_context' = IF kbd THEN (IF ctxOK THEN Len(o2.contexts) ELSE 0)
                          ELSE xkb_context
        /\ error' = (error \/ ~kbd \/ early)
        /\ wl_pointer' = IF early THEN wl_pointer
                         ELSE IF ptr THEN Len(o3.proxies) ELSE 0
        /\ wl_touch' = IF early THEN wl_touch
                       ELSE IF tch THEN Len(o4.proxies) ELSE 0
        /\ out' = (IF kbd THEN <<[what |-> "Keyboard capability present"]>> ELSE << >>)
                  \o (IF early THEN <<[what |-> "Failed to create XKB context"]>>
                      ELSE << >>)
                  \o (IF ~early /\ ptr THEN <<[what |-> "Pointer capability present"]>>
                      ELSE << >>)
                  \o (IF ~early /\ tch THEN <<[what |-> "Touch capability present"]>>
                      ELSE << >>)
        /\ calls' = (IF kbd THEN <<Call("wl_seat_get_keyboard", Len(o1.proxies)),
                                   Call("xkb_context_new", IF ctxOK THEN Len(o2.contexts)
                                                           ELSE 0)>>
                     ELSE << >>)
                    \o (IF ~early /\ ptr
                        THEN <<Call("wl_seat_get_pointer", Len(o3.proxies))>> ELSE << >>)
                    \o (IF ~early /\ tch
                        THEN <<Call("wl_seat_get_touch", Len(o4.proxies))>> ELSE << >>)
        /\ UNCHANGED <<pc, xkb_keymap, xkb_state, heap, focused_surface, pointer_event>>

\* waylandbook.example.c: a device that appears gets a proxy when the field
\* is NULL, a device that disappears has its proxy released and its field
\* cleared; nothing else of the client state is touched
wl_seat_capabilities(caps) ==
    LET have_pointer == Has(caps, WL_SEAT_CAPABILITY_POINTER)
        have_keyboard == Has(caps, WL_SEAT_CAPABILITY_KEYBOARD)
        getp == have_pointer /\ wl_pointer = 0
        relp == ~have_pointer /\ wl_pointer # 0
        o1 == IF getp THEN NewProxy(objects, "pointer")
              ELSE IF relp THEN DestroyProxy(objects, wl_pointer)
              ELSE objects
        getk == have_keyboard /\ wl_keyboard = 0
        relk == ~have_keyboard /\ wl_keyboard # 0
        o2 == IF getk THEN NewProxy(o1, "keyboard")
              ELSE IF relk THEN DestroyProxy(o1, wl_keyboard)
              ELSE o1
    IN  /\ objects' = o2
        /\ wl_pointer' = IF getp THEN Len(o1.proxies) ELSE IF relp THEN 0 ELSE wl_pointer
        /\ wl_keyboard' = IF getk THEN Len(o2.proxies) ELSE IF relk THEN 0 ELSE wl_keyboard
        /\ calls' = (IF getp THEN <<Call("wl_seat_get_pointer", Len(o1.proxies))>>
                     ELSE IF relp THEN <<Call("wl_pointer_release", wl_pointer)>>
                     ELSE << >>)
                    \o (IF getk THEN <<Call("wl_seat_get_keyboard", Len(o2.proxies))>>
                        ELSE IF relk THEN <<Call("wl_keyboard_release", wl_keyboard)>>
                        ELSE << >>)
        /\ out' = << >>
        /\ UNCHANGED <<pc, xkb_keymap, xkb_state, heap, focused_surface, pointer_event,
                       error, xkb_context, wl_touch>>

----------------------------------------------------------------------------
(* The main functions: each wl_display_dispatch call of the event loop     *)
(* returns the number of events it dispatched or -1, and the loop          *)
(* condition of the program decides whether another call follows.          *)

\* the loop condition holds: the next wl_display_dispatch call begins
Continue(r) ==
    /\ dispatch_result' = r
    /\ kh' = [kh EXCEPT !.ev = [kind |-> "dispatched", result |-> r]]
    /\ out' = << >>
    /\ calls' = << >>
    /\ UNCHANGED <<pc, status, heap, objects>>

\* the cleanup of gettext.c and its return 0
Cleanup(r) ==
    LET o1 == IF xkb_context # 0 THEN xkb_context_unref(objects, xkb_context)
              ELSE objects
        o2 == IF wl_keyboard # 0 THEN DestroyProxy(o1, wl_keyboard) ELSE o1
        o3 == IF wl_pointer # 0 THEN DestroyProxy(o2, wl_pointer) ELSE o2
        o4 == IF wl_touch # 0 THEN DestroyProxy(o3, wl_touch) ELSE o3
    IN  /\ pc' = "exited"
        /\ dispatch_result' = r
        /\ status' = <<0>>
        /\ heap' = xkb_keymap_unref(xkb_state_unref(heap, xkb_state), xkb_keymap)
        /\ objects' = o4
        /\ calls' = (IF xkb_state # 0 THEN <<Call("xkb_state_unref", xkb_state)>>
                     ELSE << >>)
                    \o (IF xkb_keymap # 0 THEN <<Call("xkb_keymap_unref", xkb_keymap)>>
                        ELSE << >>)
                    \o (IF xkb_context # 0
                        THEN <<Call("xkb_context_unref", xkb_context)>> ELSE << >>)
                    \o (IF wl_keyboard # 0
                        THEN <<Call("wl_keyboard_destroy", wl_keyboard)>> ELSE << >>)
                    \o (IF wl_pointer # 0
                        THEN <<Call("wl_pointer_destroy", wl_pointer)>> ELSE << >>)
                    \o (IF wl_touch # 0
                        THEN <<Call("wl_touch_destroy", wl_touch)>> ELSE << >>)
        /\ out' = << >>
        /\ kh' = [kh EXCEPT !.ev = [kind |-> "exit",
                                    cause |-> IF r = -1 THEN "dispatch" ELSE "error"]]

\* main_gettext as it would be if the loop tested only the dispatch result
main_gettext_resultonly(r) ==
    IF r # -1 THEN Continue(r) ELSE Cleanup(r)

\* gettext.c: while (wl_display_dispatch(display) != -1 && !globals.error)
main_gettext(r) ==
    IF r # -1 /\ ~error THEN Continue(r) ELSE Cleanup(r)

\* waylandbook.example.c: while (wl_display_dispatch(display)) {} return 0;
main_waylandbook(r) ==
    IF r # 0 THEN Continue(r)
    ELSE /\ pc' = "exited"
         /\ dispatch_result' = r
         /\ status' = <<0>>
         /\ kh' = [kh EXCEPT !.ev = [kind |-> "exit", cause |-> "idle"]]
         /\ out' = << >>
         /\ calls' = << >>
         /\ UNCHANGED <<heap, objects>>

\* xdg-shell.c: while (1) { wl_display_dispatch(display); }
main_xdg_shell(r) == Continue(r)

----------------------------------------------------------------------------
(* xdg-shell.c: the registry listener binds the globals the compositor      *)
(* announces during the roundtrip of main, and main then obtains the        *)
(* pointer, checks the globals and sets up its window.                      *)

EXIT_FAILURE == 1

\* the interfaces a compositor announces: the four the program binds and one
\* it does not
Interfaces == {"wl_compositor", "wl_shm", "wl_seat", "xdg_wm_base", "wl_output"}

registry_global_handler(name, interface) ==
    /\ UNCHANGED session_lock_manager
    /\ compositor' = IF interface = "wl_compositor" THEN name ELSE compositor
    /\ shm' = IF interface = "wl_shm" THEN name ELSE shm
    /\ seat' = IF interface = "wl_seat" THEN name ELSE seat
    /\ wm_base' = IF interface = "xdg_wm_base" THEN name ELSE wm_base
    /\ out' = <<[what |-> "Received interface", interface |-> interface]>>
              \o (IF interface # "wl_output"
                  THEN <<[what |-> "Bound", interface |-> interface]>> ELSE << >>)

\* the request main makes on the seat before its checks
PointerRequests == <<Call("wl_seat_get_pointer", seat)>>

\* the checks of main, in their order, up to and including the first that fails
Checks ==
    <<Call("if (!compositor)", compositor)>>
    \o (IF compositor = 0 THEN << >>
        ELSE <<Call("if (!wm_base)", wm_base)>>
             \o (IF wm_base = 0 THEN << >>
                 ELSE <<Call("if (!seat)", seat)>>
                      \o (IF seat = 0 THEN << >>
                          ELSE <<Call("if (!shm)", shm)>>)))

\* the requests main makes on the globals after its checks
SetupRequests ==
    <<Call("wl_compositor_create_surface", compositor),
      Call("xdg_wm_base_get_xdg_surface", wm_base),
      Call("wl_shm_create_pool", shm),
      Call("wl_cursor_theme_load", shm)>>

\* main from the return of wl_display_roundtrip to its event loop.
\* wl_seat_get_pointer(NULL) dereferences the NULL proxy: that is undefined
\* behaviour, the process may be killed there or go on to the checks.
main_xdg_shell_startup ==
    LET available == compositor # 0 /\ wm_base # 0 /\ seat # 0 /\ shm # 0
    IN  \/ /\ seat = 0
           /\ pc' = "crashed"
           /\ calls' = <<Call("wl_seat_get_pointer", seat)>>
           /\ out' = << >>
           /\ UNCHANGED status
        \/ /\ ~available
           /\ pc' = "exited"
           /\ status' = <<EXIT_FAILURE>>
           /\ calls' = PointerRequests \o Checks
           /\ out' = <<[what |-> "not available"]>>
        \/ /\ available
           /\ pc' = "dispatch"
           /\ calls' = PointerRequests \o Checks \o SetupRequests
           /\ out' = <<[what |-> "All required interfaces are available."]>>
           /\ UNCHANGED status

----------------------------------------------------------------------------
(* renderlocksession.c: lock_session and unlock_session, and the event     *)
(* loop of main with the cleanup of the lock behind it.                    *)

\* ext_session_lock_manager_v1_lock
NewLock(l) == Append(l, [destroys |-> 0])

\* ext_session_lock_v1_destroy
DestroyLock(l, lock) == [l EXCEPT ![lock].destroys = @ + 1]

\* the interfaces a compositor announces: the three the program binds and
\* one it does not
LockInterfaces ==
    {"wl_compositor", "xdg_wm_base", "ext_session_lock_manager_v1", "wl_output"}

registry_handler(name, interface) ==
    /\ compositor' = IF interface = "wl_compositor" THEN name ELSE compositor
    /\ wm_base' = IF interface = "xdg_wm_base" THEN name ELSE wm_base
    /\ session_lock_manager' = IF interface = "ext_session_lock_manager_v1"
                               THEN name ELSE session_lock_manager
    /\ out' = IF interface # "wl_output"
              THEN <<[what |-> "bound", interface |-> interface]>> ELSE << >>
    /\ UNCHANGED <<seat, shm>>

\* lock_session asks a NULL manager for the lock: ext_session_lock_manager_v1_lock
\* dereferences the NULL proxy, which is undefined behaviour; the process may
\* be killed there, or the call returns without an object
LockCrashes == ~locked /\ session_lock_manager = 0

lock_session ==
    IF ~locked
    THEN /\ locks' = IF session_lock_manager # 0 THEN NewLock(locks) ELSE locks
         /\ session_lock' = IF session_lock_manager # 0 THEN Len(locks) + 1 ELSE 0
         /\ locked' = TRUE
         /\ calls' = <<Call("ext_session_lock_manager_v1_lock", session_lock_manager)>>
         /\ out' = <<[what |-> "Session locked."]>>
    ELSE /\ UNCHANGED <<locks, session_lock, locked>>
         /\ calls' = << >>
         /\ out' = << >>

\* main from the return of wl_display_roundtrip to its event loop: only
\* wm_base is checked; wl_compositor_create_surface(NULL) dereferences the
\* NULL proxy, which is undefined behaviour: the process may be killed there
\* or get no surface and exit
main_renderlocksession_startup ==
    \/ /\ wm_base = 0
       /\ pc' = "exited"
       /\ status' = <<EXIT_FAILURE>>
       /\ calls' = << >>
       /\ out' = <<[what |-> "xdg_wm_base is not available in this compositor."]>>
       /\ UNCHANGED <<locks, session_lock, locked>>
    \/ /\ wm_base # 0 /\ compositor = 0
       /\ calls' = <<Call("wl_compositor_create_surface", compositor)>>
       /\ UNCHANGED <<locks, session_lock, locked>>
       /\ \/ /\ pc' = "crashed"
             /\ out' = << >>
             /\ UNCHANGED status
          \/ /\ pc' = "exited"
             /\ status' = <<EXIT_FAILURE>>
             /\ out' = <<[what |-> "Failed to create Wayland surface"]>>
    \/ /\ wm_base # 0 /\ compositor # 0
       /\ lock_session
       /\ pc' \in IF LockCrashes THEN {"crashed", "dispatch"} ELSE {"dispatch"}
       /\ UNCHANGED status

unlock_session ==
    IF locked /\ session_lock # 0
    THEN /\ locks' = DestroyLock(locks, session_lock)
         /\ locked' = FALSE
         /\ calls' = <<Call("ext_session_lock_v1_destroy", session_lock)>>
         /\ out' = <<[what |-> "Session unlocked."]>>
         /\ UNCHANGED session_lock
    ELSE /\ UNCHANGED <<locks, session_lock, locked>>
         /\ calls' = << >>
         /\ out' = << >>

\* while (wl_display_dispatch(display) != -1) { if (!locked) render_triangle(); }
\* and the cleanup of the lock.  Destroying a lock object a second time frees
\* freed memory: that is undefined behaviour, the process may be killed there
\* or return.
main_renderlocksession(r) ==
    IF r # -1
    THEN /\ out' = IF ~locked THEN <<[what |-> "render_triangle"]>> ELSE << >>
         /\ calls' = << >>
         /\ kh' = [kh EXCEPT !.ev = [kind |-> "dispatched", result |-> r]]
         /\ UNCHANGED <<pc, status, locks>>
    ELSE /\ locks' = IF session_lock # 0 THEN DestroyLock(locks, session_lock)
                     ELSE locks
         /\ calls' = IF session_lock # 0
                     THEN <<Call("ext_session_lock_v1_destroy", session_lock)>>
                     ELSE << >>
         /\ out' = << >>
         /\ kh' = [kh EXCEPT !.ev = [kind |-> "exit", cause |-> "dispatch"]]
         /\ \/ /\ pc' = "exited"
               /\ status' = <<0>>
            \/ /\ session_lock # 0 /\ locks[session_lock].destroys > 0
               /\ pc' = "crashed"
               /\ UNCHANGED status

----------------------------------------------------------------------------
(* The events the display connection dispatches to the wl_keyboard         *)
(* listener of the running program, and their history: the texts of the    *)
(* keymap events that compiled and got a state, whether the last keymap    *)
(* event was one of them, and the last event.                              *)
(* wl_display_dispatch delivers every event already queued before main     *)
(* tests globals.error again (gettext.c:343), so events of the same batch  *)
(* are still handled after a handler has set the error flag.               *)

Programs == {"gettext", "waylandbook"}
Formats == {0, 1}           \* WL_KEYBOARD_KEYMAP_FORMAT_NO_KEYMAP, _XKB_V1
Keys == {14, 30, 300}       \* KEY_BACKSPACE, KEY_A, and a code without symbol
KeyStates == {0, 1}         \* released, pressed

Surfaces == {1, 2}
KeyArrays == {<< >>, <<30>>, <<14, 30>>}    \* the pressed keys of an enter event
CapSets == {0, 1, 2, 3, 7}                 \* none, pointer, keyboard, both, all
DispatchResults == {-1, 0, 1}              \* what wl_display_dispatch returns

\* failed: a keymap event got its mapping and then failed to compile or to
\* construct its state; mods: the masks of the last two modifiers events
\* the stored state has received
NoKeyboardEvents ==
    [installed |-> << >>, current |-> FALSE, failed |-> FALSE, mods |-> << >>,
     ev |-> [kind |-> "none"]]

\* whether a keymap event with these inputs installs a keymap and a state
Installs(format, mapped, text, stateOK) ==
    /\ prog = "waylandbook" => format = WL_KEYBOARD_KEYMAP_FORMAT_XKB_V1
    /\ mapped
    /\ Compile(text) # << >>
    /\ stateOK

\* whether a keymap event with these inputs reaches the compile step and
\* then fails to compile or to construct the state
FailsAfterMapping(format, mapped, text, stateOK) ==
    /\ prog = "waylandbook" => format = WL_KEYBOARD_KEYMAP_FORMAT_XKB_V1
    /\ mapped
    /\ Compile(text) = << >> \/ ~stateOK

KbdKeymap(format, mapped, text, stateOK) ==
    /\ pc = "dispatch"
    /\ Attached("keyboard")
    /\ Compile(text) # << >> => Len(heap.keymaps) < MaxKeymaps
    /\ CASE prog = "gettext" -> keyboard_handle_keymap(format, mapped, text, stateOK)
         [] prog = "waylandbook" -> wl_keyboard_keymap(format, mapped, text, stateOK)
    /\ kh' = [installed |-> IF Installs(format, mapped, text, stateOK)
                            THEN Append(kh.installed, text) ELSE kh.installed,
              current |-> Installs(format, mapped, text, stateOK),
              failed |-> kh.failed \/ FailsAfterMapping(format, mapped, text, stateOK),
              mods |-> IF xkb_state' = xkb_state THEN kh.mods ELSE << >>,
              ev |-> [kind |-> "keymap", format |-> format, mapped |-> mapped,
                      had |-> IF xkb_state = 0 THEN << >> ELSE kh.mods]]
    /\ UNCHANGED prog
    /\ UNCHANGED <<ptrVars, seatVars, shellVars, lockVars>>

KbdKey(key, state) ==
    /\ pc = "dispatch"
    /\ Attached("keyboard")
    /\ CASE prog = "gettext" -> keyboard_handle_key(key, state)
         [] prog = "waylandbook" -> wl_keyboard_key(key, state)
    /\ kh' = [kh EXCEPT !.ev = [kind |-> "key", key |-> key, state |-> state,
                                again |-> kh.ev.kind = "key" /\ kh.ev.key = key]]
    /\ UNCHANGED prog
    /\ UNCHANGED <<ptrVars, seatVars, shellVars, lockVars>>

KbdModifiers(mods) ==
    /\ pc = "dispatch"
    /\ Attached("keyboard")
    /\ CASE prog = "gettext" -> keyboard_handle_modifiers(mods)
         [] prog = "waylandbook" -> wl_keyboard_modifiers(mods)
    /\ kh' = [kh EXCEPT !.ev = [kind |-> "modifiers"],
                        !.mods = IF xkb_state = 0 THEN @
                                 ELSE IF @ = << >> THEN <<mods>>
                                 ELSE <<@[Len(@)], mods>>]
    /\ UNCHANGED prog
    /\ UNCHANGED <<ptrVars, seatVars, shellVars, lockVars>>

KbdEnter(surface, keys) ==
    /\ pc = "dispatch"
    /\ Attached("keyboard")
    /\ CASE prog = "gettext" -> keyboard_handle_enter(surface, keys)
         [] prog = "waylandbook" -> wl_keyboard_enter(surface, keys)
    /\ kh' = [kh EXCEPT !.ev = [kind |-> "enter", keys |-> keys]]
    /\ UNCHANGED prog
    /\ UNCHANGED <<ptrVars, seatVars, shellVars, lockVars>>

KbdLeave(surface) ==
    /\ pc = "dispatch"
    /\ Attached("keyboard")
    /\ CASE prog = "gettext" -> keyboard_handle_leave(surface)
         [] prog = "waylandbook" -> wl_keyboard_leave(surface)
    /\ kh' = [kh EXCEPT !.ev = [kind |-> "leave", was |-> focused_surface]]
    /\ UNCHANGED prog
    /\ UNCHANGED <<ptrVars, seatVars, shellVars, lockVars>>

\* gettext.c leaves its loop when wl_display_dispatch has returned -1 or a
\* handler has set the error flag, and releases the state and the keymap
MainExit(result) ==
    /\ pc = "dispatch"
    /\ prog = "gettext"
    /\ result = -1 \/ error
    /\ main_gettext(result)
    /\ UNCHANGED <<prog, xkb_keymap, xkb_state, error, focused_surface>>
    /\ UNCHANGED <<wl_pointer, wl_keyboard, wl_touch, xkb_context>>
    /\ UNCHANGED <<ptrVars, shellVars, lockVars>>

\* a capabilities event of the seat
SeatCapabilities(caps, ctxOK) ==
    /\ pc = "dispatch"
    /\ Len(objects.proxies) < MaxProxies
    /\ prog \in Programs
    /\ CASE prog = "gettext" -> seat_handle_capabilities(caps, ctxOK)
         [] prog = "waylandbook" -> ctxOK /\ wl_seat_capabilities(caps)
    /\ kh' = [kh EXCEPT !.ev = [kind |-> "capabilities", caps |-> caps,
                                was |-> [pointer |-> wl_pointer,
                                         keyboard |-> wl_keyboard]]]
    /\ UNCHANGED <<prog, dispatch_result, status>>
    /\ UNCHANGED <<delivered, frames, oob, cur, flushed>>
    /\ UNCHANGED <<shellVars, lockVars>>

\* one wl_display_dispatch call of the event loop returns
MainLoop(r) ==
    /\ pc = "dispatch"
    /\ CASE prog = "gettext" -> main_gettext(r)
         [] prog = "waylandbook" -> main_waylandbook(r)
         [] prog = "xdg-shell" -> main_xdg_shell(r)
    /\ UNCHANGED <<prog, xkb_keymap, xkb_state, error, focused_surface>>
    /\ UNCHANGED <<wl_pointer, wl_keyboard, wl_touch, xkb_context>>
    /\ UNCHANGED <<ptrVars, shellVars, lockVars>>

Keymap == \E f \in Formats, m \in BOOLEAN, t \in KeymapTexts, s \in BOOLEAN :
              KbdKeymap(f, m, t, s)
Key == \E k \in Keys, s \in KeyStates : KbdKey(k, s)
Modifiers == \E m \in ModMasks : KbdModifiers(m)
Enter == \E s \in Surfaces, k \in KeyArrays : KbdEnter(s, k)
Leave == \E s \in Surfaces : KbdLeave(s)
Exit == \E r \in DispatchResults : MainExit(r)
Capabilities == \E c \in CapSets, ok \in BOOLEAN : SeatCapabilities(c, ok)
Dispatch == \E r \in DispatchResults : MainLoop(r)

\* a global event of the registry, during the roundtrip of xdg-shell.c
RegistryGlobal(interface) ==
    /\ pc = "roundtrip"
    /\ prog = "xdg-shell"
    /\ names < MaxGlobals
    /\ names' = names + 1
    /\ registry_global_handler(names + 1, interface)
    /\ calls' = << >>
    /\ UNCHANGED <<pc, prog, status, dispatch_result>>
    /\ UNCHANGED <<ptrVars, session_lock, locked, locks>>
    /\ UNCHANGED <<xkb_keymap, xkb_state, error, heap, focused_surface, kh>>
    /\ UNCHANGED <<wl_pointer, wl_keyboard, wl_touch, xkb_context, objects>>

\* the roundtrip of xdg-shell.c returns and main runs up to its event loop
Startup ==
    /\ pc = "roundtrip"
    /\ prog = "xdg-shell"
    /\ main_xdg_shell_startup
    /\ UNCHANGED <<prog, dispatch_result>>
    /\ UNCHANGED <<ptrVars, shellVars, lockVars>>
    /\ UNCHANGED <<xkb_keymap, xkb_state, error, heap, focused_surface, kh>>
    /\ UNCHANGED <<wl_pointer, wl_keyboard, wl_touch, xkb_context, objects>>

Global == \E i \in Interfaces : RegistryGlobal(i)

\* a global event of the registry, during the roundtrip of renderlocksession.c
LockRegistryGlobal(interface) ==
    /\ pc = "roundtrip"
    /\ prog = "renderlocksession"
    /\ names < MaxGlobals
    /\ names' = names + 1
    /\ registry_handler(names + 1, interface)
    /\ calls' = << >>
    /\ UNCHANGED <<pc, prog, status, dispatch_result>>
    /\ UNCHANGED <<ptrVars, session_lock, locked, locks>>
    /\ UNCHANGED <<xkb_keymap, xkb_state, error, heap, focused_surface, kh>>
    /\ UNCHANGED <<wl_pointer, wl_keyboard, wl_touch, xkb_context, objects>>

\* the roundtrip of renderlocksession.c returns and main runs up to its
\* event loop
LockStartup ==
    /\ pc = "roundtrip"
    /\ prog = "renderlocksession"
    /\ main_renderlocksession_startup
    /\ UNCHANGED <<prog, dispatch_result, session_lock_manager>>
    /\ UNCHANGED <<ptrVars, shellVars>>
    /\ UNCHANGED <<xkb_keymap, xkb_state, error, heap, focused_surface, kh>>
    /\ UNCHANGED <<wl_pointer, wl_keyboard, wl_touch, xkb_context, objects>>

LockGlobal == \E i \in LockInterfaces : LockRegistryGlobal(i)

\* a call of lock_session or of unlock_session in renderlocksession.c
LockSession ==
    /\ pc = "dispatch"
    /\ prog = "renderlocksession"
    /\ locked \/ Len(locks) < MaxLocks
    /\ lock_session
    /\ pc' \in IF LockCrashes THEN {"crashed", "dispatch"} ELSE {"dispatch"}
    /\ kh' = [kh EXCEPT !.ev = [kind |-> "lock_session"]]
    /\ UNCHANGED <<prog, status, dispatch_result, session_lock_manager>>
    /\ UNCHANGED <<ptrVars, shellVars>>
    /\ UNCHANGED <<xkb_keymap, xkb_state, error, heap, focused_surface>>
    /\ UNCHANGED <<wl_pointer, wl_keyboard, wl_touch, xkb_context, objects>>

UnlockSession ==
    /\ pc = "dispatch"
    /\ prog = "renderlocksession"
    /\ unlock_session
    /\ kh' = [kh EXCEPT !.ev = [kind |-> "unlock_session"]]
    /\ UNCHANGED <<pc, prog, status, dispatch_result, session_lock_manager>>
    /\ UNCHANGED <<ptrVars, shellVars>>
    /\ UNCHANGED <<xkb_keymap, xkb_state, error, heap, focused_surface>>
    /\ UNCHANGED <<wl_pointer, wl_keyboard, wl_touch, xkb_context, objects>>

\* one wl_display_dispatch call of the event loop of renderlocksession.c
\* returns
LockLoop(r) ==
    /\ pc = "dispatch"
    /\ prog = "renderlocksession"
    /\ dispatch_result' = r
    /\ main_renderlocksession(r)
    /\ UNCHANGED <<prog, session_lock_manager, session_lock, locked>>
    /\ UNCHANGED <<ptrVars, shellVars>>
    /\ UNCHANGED <<xkb_keymap, xkb_state, error, heap, focused_surface>>
    /\ UNCHANGED <<wl_pointer, wl_keyboard, wl_touch, xkb_context, objects>>

LockDispatch == \E r \in DispatchResults : LockLoop(r)

----------------------------------------------------------------------------
(* The specifications. *)

InitPointerState ==
    /\ pointer_event = ZeroEvent
    /\ delivered = 0
    /\ frames = 0
    /\ oob = FALSE
    /\ cur = NoFragments
    /\ flushed = << >>

InitKeyboard ==
    /\ xkb_keymap = 0
    /\ xkb_state = 0
    /\ error = FALSE
    /\ heap = EmptyHeap
    /\ focused_surface = 0
    /\ calls = << >>
    /\ kh = NoKeyboardEvents

\* main before any capabilities event: waylandbook.example.c has created
\* its context (:619), gettext.c creates one in its seat handler
InitSeat ==
    /\ wl_pointer = 0
    /\ wl_keyboard = 0
    /\ wl_touch = 0
    /\ objects = IF prog = "waylandbook" THEN NewContext(NoObjects) ELSE NoObjects
    /\ xkb_context = IF prog = "waylandbook" THEN 1 ELSE 0
    /\ dispatch_result = 1
    /\ status = << >>

\* xdg-shell.c before its roundtrip, renderlocksession.c before lock_session
InitShell ==
    /\ compositor = 0 /\ seat = 0 /\ shm = 0 /\ wm_base = 0
    /\ names = 0

InitLock ==
    /\ session_lock_manager = 0
    /\ session_lock = 0
    /\ locked = FALSE
    /\ locks = << >>

\* the seat after a capabilities event with pointer and keyboard
InitSeatAttached ==
    /\ objects = NewProxy(NewProxy(NewContext(NoObjects),
                                  IF prog = "gettext" THEN "keyboard" ELSE "pointer"),
                         IF prog = "gettext" THEN "pointer" ELSE "keyboard")
    /\ wl_pointer = IF prog = "gettext" THEN 2 ELSE 1
    /\ wl_keyboard = IF prog = "gettext" THEN 1 ELSE 2
    /\ wl_touch = 0
    /\ xkb_context = 1
    /\ dispatch_result = 1
    /\ status = << >>

Init ==
    /\ pc = "dispatch"
    /\ prog = "waylandbook"
    /\ out = << >>
    /\ InitPointerState
    /\ InitKeyboard
    /\ InitSeatAttached
    /\ InitShell
    /\ InitLock

Next ==
    \/ PtrEnter
    \/ PtrLeave
    \/ PtrMotion
    \/ PtrButton
    \/ PtrAxis
    \/ PtrAxisSource
    \/ PtrAxisStop
    \/ PtrAxisDiscrete
    \/ PtrFrame

\* the pointer listener under events that keep to the wl_pointer protocol
Spec == Init /\ [][Next]_vars

\* the pointer listener when the compositor may also send an axis index
\* outside the wl_pointer.axis enumeration
NextBadAxis ==
    \/ PtrMotion
    \/ PtrAxis
    \/ PtrAxisSource
    \/ PtrAxisStop
    \/ PtrAxisDiscrete
    \/ PtrFrame
    \/ PtrBadAxis

SpecBadAxis == Init /\ [][NextBadAxis]_vars

\* the pointer listener under frames whose fragments differ in their times
\* and serials
NextMeta ==
    \/ PtrEnterIn(LaterSerials, Positions)
    \/ PtrLeaveIn(LaterSerials)
    \/ PtrMotionIn(LaterTimes, Positions)
    \/ PtrButtonIn(LaterSerials, LaterTimes)
    \/ PtrAxisIn(LaterTimes, {-384})
    \/ PtrAxisSourceIn({1})
    \/ PtrAxisStopIn(LaterTimes)
    \/ PtrAxisDiscrete
    \/ PtrFrame

SpecMeta == Init /\ [][NextMeta]_vars

\* the keyboard listener of either program, with its keyboard attached and
\* its xkb context created
InitKeyboardSpec ==
    /\ pc = "dispatch"
    /\ prog \in Programs
    /\ out = << >>
    /\ InitPointerState
    /\ InitKeyboard
    /\ InitSeatAttached
    /\ InitShell
    /\ InitLock

NextKeyboard ==
    \/ Keymap
    \/ Key
    \/ Modifiers
    \/ Enter
    \/ Leave

SpecKeyboard == InitKeyboardSpec /\ [][NextKeyboard]_vars

\* the keyboard listener together with the test that ends the main loop of
\* gettext.c
NextMain ==
    \/ Keymap
    \/ Key
    \/ Modifiers
    \/ Enter
    \/ Leave
    \/ Exit

SpecMain == InitKeyboardSpec /\ [][NextMain]_vars

\* frames whose enter and motion events carry different positions
NextPosition ==
    \/ PtrEnterIn(Serials, LaterPositions)
    \/ PtrMotionIn(Times, LaterPositions)
    \/ PtrLeave
    \/ PtrButton
    \/ PtrFrame

SpecPosition == Init /\ [][NextPosition]_vars

\* frames of a compositor that sends an axis source the table does not name
NextBadSource ==
    \/ PtrMotion
    \/ PtrAxisIn(Times, {-384})
    \/ PtrAxisStop
    \/ PtrAxisSourceIn(OtherSources)
    \/ PtrFrame

SpecBadSource == Init /\ [][NextBadSource]_vars

\* waylandbook.example.c from the start of its event loop: the seat gains and
\* loses its devices while pointer events and frames arrive
InitSeatPointer ==
    /\ pc = "dispatch"
    /\ prog = "waylandbook"
    /\ out = << >>
    /\ InitPointerState
    /\ InitKeyboard
    /\ InitSeat
    /\ InitShell
    /\ InitLock

NextSeatPointer ==
    \/ Capabilities
    \/ PtrMotion
    \/ PtrButton
    \/ PtrFrame

SpecSeatPointer == InitSeatPointer /\ [][NextSeatPointer]_vars

\* the programs with an event loop, from the start of the loop: capabilities
\* and keyboard events arrive, and the wl_display_dispatch calls return
LoopPrograms == Programs \cup {"xdg-shell"}

InitLoop ==
    /\ pc = "dispatch"
    /\ prog \in LoopPrograms
    /\ out = << >>
    /\ InitPointerState
    /\ InitKeyboard
    /\ InitSeat
    /\ InitShell
    /\ InitLock

\* the keymap events of a compositor that sends a mappable text in the
\* supported format
LoopKeymap ==
    /\ Len(heap.keymaps) < MaxLoopKeymaps
    /\ \E t \in {"us", "malformed"}, s \in BOOLEAN :
           KbdKeymap(WL_KEYBOARD_KEYMAP_FORMAT_XKB_V1, TRUE, t, s)

NextLoop ==
    \/ Capabilities
    \/ LoopKeymap
    \/ Dispatch

SpecLoop == InitLoop /\ [][NextLoop]_vars

\* xdg-shell.c from the roundtrip of main on
InitXdgShell ==
    /\ pc = "roundtrip"
    /\ prog = "xdg-shell"
    /\ out = << >>
    /\ InitPointerState
    /\ InitKeyboard
    /\ InitSeat
    /\ InitShell
    /\ InitLock

NextXdgShell ==
    \/ Global
    \/ Startup
    \/ Dispatch

SpecXdgShell == InitXdgShell /\ [][NextXdgShell]_vars

\* renderlocksession.c from the roundtrip of main on
InitLockSession ==
    /\ pc = "roundtrip"
    /\ prog = "renderlocksession"
    /\ out = << >>
    /\ InitPointerState
    /\ InitKeyboard
    /\ InitSeat
    /\ InitShell
    /\ InitLock

NextLockSession ==
    \/ LockGlobal
    \/ LockStartup
    \/ LockSession
    \/ UnlockSession
    \/ LockDispatch

SpecLockSession == InitLockSession /\ [][NextLockSession]_vars

----------------------------------------------------------------------------
(* What a frame line reports, and what the frame it closed consisted of.   *)

Flushed == out # << >>
Snapshot == out[1]
Covered == flushed[1]

ReportsEnter(r) == r.entered # << >>
ReportsLeave(r) == r.leave
ReportsMotion(r) == r.motion # << >>
ReportsButton(r) == r.button # << >>
ReportsAxis(r) == \E i \in AxisIndex : r.axes[i] # << >> /\ r.axes[i][1].value # << >>
ReportsAxisSource(r) == \E i \in AxisIndex : r.axes[i] # << >> /\ r.axes[i][1].via # << >>
ReportsAxisStop(r) == \E i \in AxisIndex : r.axes[i] # << >> /\ r.axes[i][1].stopped
ReportsAxisDiscrete(r) ==
    \E i \in AxisIndex : r.axes[i] # << >> /\ r.axes[i][1].discrete # << >>

\* the decimal value of the wl_fixed_t inputs of the model
Decimal(f) ==
    CASE f = 0 -> [whole |-> 0, frac256 |-> 0]
      [] f = 256 -> [whole |-> 1, frac256 |-> 0]
      [] f = 512 -> [whole |-> 2, frac256 |-> 0]
      [] f = -384 -> [whole |-> -2, frac256 |-> 128]

\* the line of a frame without any fragment
AllAbsent ==
    [time |-> 0, entered |-> << >>, leave |-> FALSE, motion |-> << >>,
     button |-> << >>, axes |-> [i \in AxisIndex |-> << >>]]

\* the kinds other than the axis source, each reported iff it was called, and
\* motion and button reported with the arguments of the call
KindsButSource(r, h) ==
    /\ ReportsEnter(r) <=> "enter" \in h.calls
    /\ ReportsLeave(r) <=> "leave" \in h.calls
    /\ ReportsMotion(r) <=> "motion" \in h.calls
    /\ ReportsButton(r) <=> "button" \in h.calls
    /\ ReportsAxis(r) <=> "axis" \in h.calls
    /\ ReportsAxisStop(r) <=> "axis_stop" \in h.calls
    /\ ReportsAxisDiscrete(r) <=> "axis_discrete" \in h.calls
    /\ h.calls = {"motion", "button"} /\ h.pos = <<<<256, 512>>>>
          /\ h.btn = <<272, 1>>
       => /\ r.motion = <<Decimal(256), Decimal(512)>>
          /\ r.button = <<272, "pressed">>
          /\ \A i \in AxisIndex : r.axes[i] = << >>

C2_AxisMembersPerAxis ==
    Flushed =>
        \A i \in AxisIndex :
            Snapshot.axes[i] # << >> =>
                /\ Snapshot.axes[i][1].value # << >> => Covered.last[i] # << >>
                /\ Snapshot.axes[i][1].discrete # << >> => Covered.disc[i] # << >>

\* C3: right after every frame() the pending pointer event is empty: event
\* mask 0, no axis valid, position, button, state, time, serial and axis
\* source cleared; and a frame line reports no kind that was not called since
\* the previous frame.
C3_ResetOnFlush ==
    Flushed =>
        /\ pointer_event.event_mask = {}
        /\ \A i \in AxisIndex :
              /\ ~pointer_event.axes[i].valid
              /\ pointer_event.axes[i].value = 0
              /\ pointer_event.axes[i].discrete = 0
        /\ pointer_event.surface_x = 0 /\ pointer_event.surface_y = 0
        /\ pointer_event.button = 0 /\ pointer_event.state = 0
        /\ pointer_event.time = 0 /\ pointer_event.serial = 0
        /\ pointer_event.axis_source = 0
        /\ ReportsEnter(Snapshot) => "enter" \in Covered.calls
        /\ ReportsLeave(Snapshot) => "leave" \in Covered.calls
        /\ ReportsMotion(Snapshot) => "motion" \in Covered.calls
        /\ ReportsButton(Snapshot) => "button" \in Covered.calls
        /\ ReportsAxis(Snapshot) => "axis" \in Covered.calls
        /\ ReportsAxisSource(Snapshot) => "axis_source" \in Covered.calls
        /\ ReportsAxisStop(Snapshot) => "axis_stop" \in Covered.calls
        /\ ReportsAxisDiscrete(Snapshot) => "axis_discrete" \in Covered.calls

\* a frame of all eight kinds has been flushed, after an earlier frame
C3_Witness ==
    /\ Flushed
    /\ frames = 2
    /\ Covered.calls = {"enter", "leave", "motion", "button", "axis",
                        "axis_source", "axis_stop", "axis_discrete"}

\* C4: frame() without a fragment since the previous frame() (or since the
\* start) reports the line with every field absent and leaves the pending
\* event empty, however often it is repeated.
C4_EmptyFrame ==
    Flushed /\ Covered.calls = {} =>
        /\ Snapshot = AllAbsent
        /\ pointer_event = ZeroEvent

\* the second frame event, with no fragment before it
C4_Witness ==
    /\ Flushed
    /\ frames = 2
    /\ Covered.calls = {}

\* C5: the number of frame lines delivered equals the number of frame events
\* dispatched; a fragment delivers nothing and a frame delivers one line.
C5_OneSnapshotPerFrame ==
    /\ delivered = frames
    /\ Flushed <=> flushed # << >>

\* two frames have been delivered and a fragment has followed them
C5_Witness ==
    /\ frames = 2
    /\ delivered = 2
    /\ cur.calls # {}
    /\ ~Flushed

\* C6: when axis() is called more than once for one axis index within a frame,
\* the frame line carries the value of the last call for that axis.
C6_AxisLastValueWins ==
    Flushed =>
        \A a \in AxisIndex :
            Covered.last[a] # << >> =>
                /\ Snapshot.axes[a] # << >>
                /\ Snapshot.axes[a][1].value = <<Decimal(Covered.last[a][1])>>

\* a frame with two axis() calls of different values for one axis
C6_Witness ==
    /\ Flushed
    /\ \E a \in AxisIndex :
          /\ Covered.first[a] # << >>
          /\ Covered.first[a] # Covered.last[a]

\* C7: axis(), axisStop() or axisDiscrete() with an axis index other than 0 or
\* 1 is ignored: the pending pointer event and the rest of the state stay as
\* they are and nothing is written outside pointer_event.axes[2].
C7_BadAxisIgnored ==
    [][PtrBadAxis =>
          /\ pointer_event' = pointer_event
          /\ oob' = oob
          /\ pc' = pc
          /\ delivered' = delivered]_vars

----------------------------------------------------------------------------
(* The keymap and state the translator holds. *)

Ready == xkb_keymap # 0 /\ xkb_state # 0

\* the table of a keymap text of the model
TableOf(text) == IF text = "us" THEN UsKeys ELSE FrKeys

\* the name hardware key 30 (KEY_A) has under a keymap text and a shift level
NameOfKeyA(text, level) ==
    CASE text = "us" /\ level = 1 -> "a"
      [] text = "us" /\ level = 2 -> "A"
      [] text = "fr" /\ level = 1 -> "q"
      [] text = "fr" /\ level = 2 -> "Q"

\* C8: a keymap event whose bytes fail to compile, arriving while a keymap
\* and a state are installed, leaves both installed and unreleased in either
\* program, so that every key resolves afterwards as it did before.
C8_FailedInstallPreserves ==
    [][\A t \in KeymapTexts, s \in BOOLEAN :
          /\ Ready
          /\ Compile(t) = << >>
          /\ KbdKeymap(WL_KEYBOARD_KEYMAP_FORMAT_XKB_V1, TRUE, t, s)
          => /\ pc' = "dispatch"
             /\ xkb_keymap' = xkb_keymap
             /\ xkb_state' = xkb_state
             /\ heap' = heap
             /\ \A k \in Keys :
                   xkb_state_key_get_syms(heap', xkb_state', k + 8)
                      = xkb_state_key_get_syms(heap, xkb_state, k + 8)]_vars

\* C9: after a keymap event A that installed and a later keymap event B that
\* installed, with no keymap event after B, the stored keymap is the one
\* compiled from B, the stored state is derived from it, every other keymap
\* and state object has been released by exactly one unref, the stored ones
\* by none, and a key event resolves KEY_A under B.
C9_SecondInstallWins ==
    kh.current /\ Len(kh.installed) >= 2 =>
        LET B == kh.installed[Len(kh.installed)]
        IN  /\ Ready
            /\ heap.keymaps[xkb_keymap].table = TableOf(B)
            /\ heap.states[xkb_state].keymap = xkb_keymap
            /\ \A i \in DOMAIN heap.keymaps :
                  IF i = xkb_keymap
                  THEN heap.keymaps[i].unrefs = 0 /\ heap.keymaps[i].refcnt > 0
                  ELSE heap.keymaps[i].unrefs = 1 /\ heap.keymaps[i].refcnt = 0
            /\ \A j \in DOMAIN heap.states :
                  IF j = xkb_state
                  THEN heap.states[j].unrefs = 0 /\ heap.states[j].refcnt > 0
                  ELSE heap.states[j].unrefs = 1 /\ heap.states[j].refcnt = 0
            /\ kh.ev.kind = "key" /\ kh.ev.key = 30
               => /\ out # << >>
                  /\ out[1].name = NameOfKeyA(B, Level(heap.states[xkb_state].mods))

\* KEY_A has been resolved after two installs of different keymap texts
C9_Witness ==
    /\ kh.current
    /\ Len(kh.installed) = 2
    /\ kh.installed[1] # kh.installed[2]
    /\ kh.ev.kind = "key" /\ kh.ev.key = 30
    /\ out # << >>

\* C10: after any keymap, modifiers and key events the stored state is not a
\* released one and is the state derived from the stored keymap, and the
\* stored keymap is not a released one.
C10_NoDanglingPair ==
    /\ xkb_state # 0 =>
          /\ heap.states[xkb_state].unrefs = 0
          /\ heap.states[xkb_state].refcnt > 0
          /\ heap.states[xkb_state].keymap = xkb_keymap
    /\ xkb_keymap # 0 =>
          /\ heap.keymaps[xkb_keymap].unrefs = 0
          /\ heap.keymaps[xkb_keymap].refcnt > 0

\* a pair was installed and released, and then a failed compile and a failed
\* state construction have happened
C10_Witness ==
    /\ xkb_keymap # 0
    /\ xkb_state = 0
    /\ error
    /\ Len(heap.states) >= 1
    /\ Len(heap.keymaps) >= 2
    /\ kh.ev.kind = "key"

\* the functions that read or write a translation state
StateQueries ==
    {"xkb_state_key_get_syms", "xkb_state_key_get_one_sym", "xkb_state_key_get_utf8"}

\* C11: while the program runs, the translator holds either no keymap and no
\* state, or a keymap and a state derived from that keymap; never a keymap
\* without a state or a state without a keymap, also when the state could
\* not be constructed after a successful compile.
C11_TwoStateTranslator ==
    pc = "dispatch" =>
        \/ xkb_keymap = 0 /\ xkb_state = 0
        \/ Ready /\ heap.states[xkb_state].keymap = xkb_keymap

\* C12: a key event, or a keyboard-enter event carrying pressed keys, that
\* arrives while no translation state is stored changes nothing, leaves the
\* program running and makes no query of the (NULL) translation state.
C12_KeyInUninitialized ==
    [][/\ \A k \in Keys, s \in KeyStates :
             xkb_state = 0 /\ KbdKey(k, s)
             => /\ pc' = "dispatch"
                /\ UNCHANGED <<xkb_keymap, xkb_state, heap>>
                /\ \A i \in DOMAIN calls' : calls'[i].op \notin StateQueries
       /\ \A f \in Surfaces, ks \in KeyArrays :
             xkb_state = 0 /\ ks # << >> /\ KbdEnter(f, ks)
             => /\ pc' = "dispatch"
                /\ UNCHANGED <<xkb_keymap, xkb_state, heap>>
                /\ \A i \in DOMAIN calls' : calls'[i].op \notin StateQueries]_vars

\* C13: a modifiers event that arrives while no translation state is stored
\* changes nothing, leaves the program running and does not call
\* xkb_state_update_mask on the (NULL) translation state.
C13_ModifiersInUninitialized ==
    [][\A m \in ModMasks :
          xkb_state = 0 /\ KbdModifiers(m)
          => /\ pc' = "dispatch"
             /\ UNCHANGED <<xkb_keymap, xkb_state, heap, error>>
             /\ \A i \in DOMAIN calls' : calls'[i].op # "xkb_state_update_mask"]_vars

\* C14: after a keymap event whose compile or whose state construction
\* failed, the program is still dispatching: it has not left its main loop
\* because the error flag is set, and the keymap handler has not ended the
\* process.
C14_KeymapErrorKeepsLoop ==
    kh.failed =>
        /\ ~(pc = "exited" /\ kh.ev.kind = "exit" /\ kh.ev.cause = "error")
        /\ ~(pc = "crashed" /\ kh.ev.kind = "keymap")

\* the positions in calls of the calls of a function
Pos(op) == {i \in DOMAIN calls : calls[i].op = op}

\* C15: whenever a keymap event that declares the supported format has been
\* handled, whether its mapping, its compile or its state construction
\* failed or all succeeded, its handler has closed the delivered file
\* descriptor exactly once.
C15_FdClosedOnce ==
    kh.ev.kind = "keymap" /\ kh.ev.format = WL_KEYBOARD_KEYMAP_FORMAT_XKB_V1
    => Cardinality(Pos("close")) = 1

\* C16: a keymap event of the supported format whose file descriptor cannot
\* be mapped leaves the program running and leaves the stored keymap, the
\* stored state, the objects they point to and the error flag as they were.
C16_MappingFailureRecovered ==
    [][\A t \in KeymapTexts, s \in BOOLEAN :
          KbdKeymap(WL_KEYBOARD_KEYMAP_FORMAT_XKB_V1, FALSE, t, s)
          => /\ pc' = "dispatch"
             /\ UNCHANGED <<xkb_keymap, xkb_state, heap, error>>]_vars

\* C17: a keymap event that got its mapping has released it by exactly one
\* munmap, made after the mmap and after the compile call and before any
\* unref of the old keymap or state and before the new pair is stored.
C17_MappingLifetime ==
    kh.ev.kind = "keymap" /\ kh.ev.mapped /\ Pos("mmap") # {} =>
        /\ Cardinality(Pos("munmap")) = 1
        /\ Pos("xkb_keymap_new_from_string") # {}
        /\ \A m \in Pos("munmap") :
              /\ \A a \in Pos("mmap") \cup Pos("xkb_keymap_new_from_string") : a < m
              /\ \A r \in Pos("xkb_keymap_unref") \cup Pos("xkb_state_unref")
                          \cup Pos("store") : m < r

\* a keymap event has replaced an installed pair by a new one
C17_Witness ==
    /\ kh.ev.kind = "keymap"
    /\ kh.current
    /\ Len(kh.installed) >= 2
    /\ Pos("munmap") # {}
    /\ \E r \in Pos("xkb_keymap_unref") : calls[r].arg # 0
    /\ Pos("store") # {}

\* C18: a keymap event that declares a format other than the supported one
\* installs nothing: its bytes are not compiled, the stored keymap and state
\* stay as they were, and the program keeps running.
C18_FormatMismatchFails ==
    [][\A f \in Formats, m \in BOOLEAN, t \in KeymapTexts, s \in BOOLEAN :
          f # WL_KEYBOARD_KEYMAP_FORMAT_XKB_V1 /\ KbdKeymap(f, m, t, s)
          => /\ pc' = "dispatch"
             /\ UNCHANGED <<xkb_keymap, xkb_state, heap>>
             /\ \A i \in DOMAIN calls' :
                   calls'[i].op # "xkb_keymap_new_from_string"]_vars

\* the symbol the stored keymap has for hardware code k at the shift level
\* of the stored state, looked up under keycode k + 8
SymAtOffset8(k) ==
    LET table == heap.keymaps[xkb_keymap].table
        level == IF 0 \in heap.states[xkb_state].mods.depressed
                          \cup heap.states[xkb_state].mods.latched
                          \cup heap.states[xkb_state].mods.locked THEN 2 ELSE 1
    IN  IF k + 8 \in DOMAIN table THEN table[k + 8][level] ELSE 0

\* C19: in Ready, a key event with hardware code k queries the translation
\* state only under keycode k + 8 and reports the symbol (and, in
\* waylandbook.example.c, the UTF-8 text) the keymap has there; the same
\* holds for every pressed key of a keyboard-enter event.
C19_OffsetAppliedOnce ==
    pc = "dispatch" /\ Ready =>
        /\ kh.ev.kind = "key" =>
              /\ \A i \in DOMAIN calls :
                    calls[i].op \in StateQueries => calls[i].arg = kh.ev.key + 8
              /\ Pos("xkb_state_key_get_syms") \cup Pos("xkb_state_key_get_one_sym") # {}
              /\ prog = "waylandbook" =>
                    /\ out[1].sym = SymAtOffset8(kh.ev.key)
                    /\ out[1].name = KeysymName(SymAtOffset8(kh.ev.key))
                    /\ out[1].utf8 = KeysymUtf8(SymAtOffset8(kh.ev.key))
              /\ prog = "gettext" =>
                    CASE SymAtOffset8(kh.ev.key) = 0 -> out = << >>
                      [] SymAtOffset8(kh.ev.key) = 65288 -> out[1].what = "Backspace"
                      [] OTHER -> out[1].name = KeysymName(SymAtOffset8(kh.ev.key))
        /\ kh.ev.kind = "enter" /\ prog = "waylandbook" =>
              /\ Len(out) = Len(kh.ev.keys) + 1
              /\ Len(calls) = 3 * Len(kh.ev.keys)
              /\ \A n \in 1..Len(kh.ev.keys) :
                    /\ out[n + 1].sym = SymAtOffset8(kh.ev.keys[n])
                    /\ out[n + 1].utf8 = KeysymUtf8(SymAtOffset8(kh.ev.keys[n]))
                    /\ calls[3 * n - 2] = Call("xkb_state_key_get_one_sym", kh.ev.keys[n] + 8)
                    /\ calls[3 * n] = Call("xkb_state_key_get_utf8", kh.ev.keys[n] + 8)

\* KEY_BACKSPACE (14) has been resolved in Ready, in a keymap that has other
\* symbols under keycodes 14 and 30
C19_Witness ==
    /\ pc = "dispatch" /\ Ready
    /\ prog = "waylandbook"
    /\ kh.ev.kind = "key" /\ kh.ev.key = 14
    /\ out[1].name = "BackSpace"
    /\ heap.keymaps[xkb_keymap].table[14][1] # 65288
    /\ heap.keymaps[xkb_keymap].table[30][1] # 65288

\* C20: once the stored state has received a modifiers event, its
\* (depressed, latched, locked, group) is exactly the tuple of the most
\* recent one, and a key event for KEY_A is resolved at the shift level of
\* that tuple in the last installed keymap.
C20_ModifiersWholesale ==
    pc = "dispatch" /\ xkb_state # 0 /\ kh.mods # << >> =>
        LET last == kh.mods[Len(kh.mods)]
        IN  /\ heap.states[xkb_state].mods = last
            /\ kh.ev.kind = "key" /\ kh.ev.key = 30 =>
                  /\ out # << >>
                  /\ out[1].name =
                        NameOfKeyA(kh.installed[Len(kh.installed)],
                                   IF 0 \in last.depressed \cup last.latched \cup last.locked
                                   THEN 2 ELSE 1)

\* KEY_A has been resolved after a modifiers event with Shift depressed and a
\* later one without it
C20_Witness ==
    /\ pc = "dispatch" /\ xkb_state # 0
    /\ kh.mods = <<ShiftDown, CapsLocked>>
    /\ kh.ev.kind = "key" /\ kh.ev.key = 30
    /\ out # << >>
    /\ out[1].name \in {"a", "q"}

\* whether two outputs of a key handler name the same symbol and text
SameResolution(o1, o2) ==
    /\ (o1 = << >>) = (o2 = << >>)
    /\ o1 # << >> =>
          /\ o1[1].what = o2[1].what
          /\ o1[1].what = "Key" => o1[1].name = o2[1].name
          /\ o1[1].what = "key" =>
                /\ o1[1].name = o2[1].name
                /\ o1[1].sym = o2[1].sym
                /\ o1[1].utf8 = o2[1].utf8

\* C21: a key event, press or release, leaves the stored keymap, the stored
\* state and every keymap and state object (with its modifier masks) as they
\* were, and when the event before it was a key event with the same hardware
\* code it resolves to the same symbol name and text as that one.
C21_KeyReadOnly ==
    [][\A k \in Keys, s \in KeyStates :
          xkb_state # 0 /\ KbdKey(k, s)
          => /\ UNCHANGED <<xkb_keymap, xkb_state, heap>>
             /\ kh.ev.kind = "key" /\ kh.ev.key = k => SameResolution(out, out')]_vars

\* the same hardware code has been resolved twice in a row, with Shift down
C21_Witness ==
    /\ pc = "dispatch" /\ Ready
    /\ kh.ev.kind = "key" /\ kh.ev.again
    /\ kh.mods # << >> /\ kh.mods[Len(kh.mods)] = ShiftDown
    /\ out # << >>

\* C22: in gettext.c a key event in Ready whose symbol is BackSpace is
\* reported as Backspace pressed or Backspace released according to the press
\* state, without a symbol name, and a key event with any other symbol is
\* reported as Key with the name of the symbol and the press state.
C22_BackspaceDistinguished ==
    prog = "gettext" /\ pc = "dispatch" /\ Ready /\ kh.ev.kind = "key" =>
        LET sym == SymAtOffset8(kh.ev.key)
            how == IF kh.ev.state = 1 THEN "pressed" ELSE "released"
        IN  /\ sym = 65288 => out = <<[what |-> "Backspace", state |-> how]>>
            /\ sym \notin {0, 65288} =>
                  out = <<[what |-> "Key", name |-> KeysymName(sym), state |-> how]>>

\* gettext.c has reported the release of KEY_BACKSPACE
C22_Witness ==
    /\ prog = "gettext" /\ pc = "dispatch" /\ Ready
    /\ kh.ev.kind = "key" /\ kh.ev.key = 14 /\ kh.ev.state = 0
    /\ out = <<[what |-> "Backspace", state |-> "released"]>>

C24_FocusTracking ==
    [][prog = "gettext" =>
          /\ \A f \in Surfaces, ks \in KeyArrays :
                KbdEnter(f, ks) => focused_surface' = f
          /\ \A f \in Surfaces : KbdLeave(f) => focused_surface' = 0
          /\ Keymap \/ Key \/ Modifiers => focused_surface' = focused_surface]_vars

\* surface 2 had the focus and a keyboard-leave event has cleared it
C24_Witness ==
    /\ prog = "gettext"
    /\ kh.ev.kind = "leave" /\ kh.ev.was = 2
    /\ focused_surface = 0

\* C25: in waylandbook.example.c, while the seat has no pointer proxy the
\* pending frame is empty: a capabilities event that removes the pointer
\* discards the fragments accumulated so far, so that the first frame after
\* the pointer returns reports only fragments received after the re-attach.
C25_PendingDiscardedOnLoss ==
    (prog = "waylandbook" /\ wl_pointer = 0) => pointer_event = ZeroEvent

\* the last event was a capabilities event without the keyboard bit, handled
\* while the keyboard field held a proxy
KeyboardDetached ==
    /\ kh.ev.kind = "capabilities"
    /\ ~Has(kh.ev.caps, WL_SEAT_CAPABILITY_KEYBOARD)
    /\ kh.ev.was.keyboard # 0

\* C26: after a capabilities event that removed the keyboard, the keyboard
\* proxy the program held has been released, the installed keymap and state
\* have been released, and the keymap and state fields are cleared.
C26_DetachReleasesTranslator ==
    KeyboardDetached =>
        /\ ~objects.proxies[kh.ev.was.keyboard].live
        /\ wl_keyboard = 0
        /\ xkb_keymap = 0 /\ xkb_state = 0
        /\ \A i \in DOMAIN heap.keymaps : heap.keymaps[i].refcnt = 0
        /\ \A i \in DOMAIN heap.states : heap.states[i].refcnt = 0

\* C27: in gettext.c a capabilities event without the keyboard bit sets the
\* error flag; once the flag is set no further iteration of the event loop
\* begins: the wl_display_dispatch call that delivered the event returns, the
\* loop ends, and the cleanup releases the state, the keymap and the context
\* the fields hold before main returns.
C27_MissingKeyboardFatal ==
    [][prog = "gettext" =>
          /\ (kh'.ev.kind = "capabilities"
              /\ ~Has(kh'.ev.caps, WL_SEAT_CAPABILITY_KEYBOARD)) => error'
          /\ (error /\ pc = "dispatch") => kh'.ev.kind # "dispatched"
          /\ (pc = "dispatch" /\ kh'.ev.kind = "exit") =>
                /\ pc' = "exited"
                /\ status' # << >>
                /\ xkb_state # 0 =>
                      heap'.states[xkb_state].unrefs = heap.states[xkb_state].unrefs + 1
                /\ xkb_keymap # 0 =>
                      heap'.keymaps[xkb_keymap].unrefs
                          = heap.keymaps[xkb_keymap].unrefs + 1
                /\ xkb_context # 0 => objects'.contexts[xkb_context].refcnt = 0
                /\ wl_pointer # 0 => ~objects'.proxies[wl_pointer].live]_vars

\* gettext.c had a keyboard and a context, lost the keyboard to a
\* capabilities event, and has left its loop after a wl_display_dispatch call
\* that returned 1, releasing the context
C27_Witness ==
    /\ prog = "gettext"
    /\ pc = "exited"
    /\ kh.ev.kind = "exit" /\ kh.ev.cause = "error"
    /\ dispatch_result = 1
    /\ error /\ ~kh.failed
    /\ wl_keyboard = 0
    /\ \E i \in DOMAIN objects.proxies : objects.proxies[i].kind = "keyboard"
    /\ xkb_context # 0 /\ objects.contexts[xkb_context].refcnt = 0

\* C28: in every program, a wl_display_dispatch call that returns -1 ends the
\* event loop, and the process exits with a non-zero status.
C28_DispatchFailureFatal ==
    [][(pc = "dispatch" /\ kh'.ev.kind \in {"dispatched", "exit"}
        /\ dispatch_result' = -1) =>
           /\ pc' = "exited"
           /\ status' # << >>
           /\ status'[1] # 0]_vars

\* C29: when the event loop of a program has ended, every keymap, every state
\* and every context the program created has been released exactly once and
\* is free.
C29_ShutdownReleasesAll ==
    pc = "exited" =>
        /\ \A i \in DOMAIN heap.keymaps :
              heap.keymaps[i].unrefs = 1 /\ heap.keymaps[i].refcnt = 0
        /\ \A i \in DOMAIN heap.states :
              heap.states[i].unrefs = 1 /\ heap.states[i].refcnt = 0
        /\ \A i \in DOMAIN objects.contexts :
              objects.contexts[i].unrefs = 1 /\ objects.contexts[i].refcnt = 0

\* the last element of a history field, or 0 when the frame has none
LastOr0(h) == IF h = << >> THEN 0 ELSE h[1]

\* C30: the pending frame holds the time of the most recent fragment that
\* carries one (motion, button, axis, axis stop) and the serial of the most
\* recent fragment that carries one (enter, leave, button), 0 when the frame
\* has none; fragments that carry neither leave both as they are; and the
\* line a frame event writes reports that time.
C30_FrameMetadata ==
    /\ pointer_event.time = LastOr0(cur.time)
    /\ pointer_event.serial = LastOr0(cur.serial)
    /\ Flushed => out[1].time = LastOr0(flushed[1].time)

\* a frame with fragments of times 10 and 20 and serials 5 and 6, then an
\* axis source, has been reported with the earlier of the two times
C30_Witness ==
    /\ Flushed
    /\ flushed[1].times = {10, 20}
    /\ flushed[1].serials = {5, 6}
    /\ "axis_source" \in flushed[1].calls
    /\ out[1].time = 10

\* C31: in the frame line an axis is reported as stopped if and only if
\* axisStop() was called for that axis since the previous frame, so a frame
\* with axisStop() for one axis and axis() or axisDiscrete() for the other
\* reports only the first as stopped; and an axis carries a discrete step if
\* and only if axisDiscrete() was called for that axis.
C31_StopPerAxis ==
    Flushed =>
        \A a \in AxisIndex :
            /\ a \in Covered.stop =>
                  Snapshot.axes[a] # << >> /\ Snapshot.axes[a][1].stopped
            /\ Snapshot.axes[a] # << >> =>
                  /\ Snapshot.axes[a][1].stopped => a \in Covered.stop
                  /\ Snapshot.axes[a][1].discrete # << >> <=> Covered.disc[a] # << >>

\* C32: while the state a successful keymap event installed has received no
\* modifiers event, its masks are empty and its group is 0, whatever the state
\* before it had received, and a key event for KEY_A is resolved at the first
\* shift level of the new keymap.
C32_FreshMaskAfterSwap ==
    pc = "dispatch" /\ xkb_state # 0 /\ kh.current /\ kh.mods = << >> =>
        /\ heap.states[xkb_state].mods = NoMods
        /\ kh.ev.kind = "key" /\ kh.ev.key = 30 =>
              /\ out # << >>
              /\ out[1].name = NameOfKeyA(kh.installed[Len(kh.installed)], 1)

\* a keymap event has just replaced a state that had received a modifiers
\* event, and the new state has the empty masks
C32_Witness ==
    /\ pc = "dispatch"
    /\ kh.ev.kind = "keymap" /\ kh.current
    /\ kh.ev.had # << >>
    /\ Len(kh.installed) >= 2
    /\ xkb_state # 0 /\ heap.states[xkb_state].mods = NoMods

\* C33: a frame line of a frame with both an enter and a motion event reports
\* both kinds, each with the position of whichever of the two events came
\* last in the frame.
C33_EnterMotionSharePosition ==
    Flushed /\ {"enter", "motion"} \subseteq Covered.calls =>
        LET last == Covered.pos[1]
            reported == <<Decimal(last[1]), Decimal(last[2])>>
        IN  /\ ReportsEnter(Snapshot) /\ ReportsMotion(Snapshot)
            /\ Snapshot.entered = reported
            /\ Snapshot.motion = reported

\* enter at (1.0, 2.0) then motion at (2.0, 1.0), then frame: both are
\* reported at (2.0, 1.0)
C33_Witness ==
    /\ Flushed
    /\ Covered.poss = {<<"enter", <<256, 512>>>>, <<"motion", <<512, 256>>>>}
    /\ Covered.pos = <<<<512, 256>>>>
    /\ Snapshot.entered = <<Decimal(512), Decimal(256)>>
    /\ Snapshot.motion = <<Decimal(512), Decimal(256)>>

\* axis(), axisStop() or axisDiscrete() was called for the axis in the frame
MarkedValid(h, i) == i \in h.stop \/ h.last[i] # << >> \/ h.disc[i] # << >>

\* C34: the frame line of a frame in which axisSource() was called carries
\* the name of the source once for every axis that axis(), axisStop() or
\* axisDiscrete() marked valid in the frame, and reports no other axis, so no
\* source at all when no axis was marked valid.
C34_SourceWithValidAxis ==
    Flushed /\ "axis_source" \in Covered.calls =>
        \A i \in AxisIndex :
            IF MarkedValid(Covered, i)
            THEN /\ Snapshot.axes[i] # << >>
                 /\ Snapshot.axes[i][1].via = <<axis_source_name(Covered.src[1])>>
            ELSE Snapshot.axes[i] = << >>

\* a frame of axisSource(finger) and axisStop(horizontal) has been reported:
\* the horizontal axis via finger, the vertical axis not at all
C34_Witness ==
    /\ Flushed
    /\ Covered.calls = {"axis_source", "axis_stop"}
    /\ Covered.stop = {1} /\ Covered.src = <<1>>
    /\ Snapshot.axes[1] # << >> /\ Snapshot.axes[1][1].via = <<"finger">>
    /\ Snapshot.axes[0] = << >>

\* C35: a frame in which axisSource(s) was called, s greater than 3 included,
\* is reported without a read outside the four-entry table of source names:
\* the process is still running and every source name of the line is one of
\* the four.
C35_SourceLookupInRange ==
    Flushed /\ Covered.src # << >> =>
        /\ ~oob
        /\ pc = "dispatch"
        /\ \A i \in AxisIndex :
              Snapshot.axes[i] # << >> /\ Snapshot.axes[i][1].via # << >> =>
                  Snapshot.axes[i][1].via[1]
                      \in {"wheel", "finger", "continuous", "wheel tilt"}

\* the proxies of a device that have not been released or destroyed
LiveProxies(kind) ==
    {i \in DOMAIN objects.proxies :
        objects.proxies[i].kind = kind /\ objects.proxies[i].live}

\* the contexts that have not been freed
LiveContexts == {i \in DOMAIN objects.contexts : objects.contexts[i].refcnt > 0}

\* C36: at any time at most one keyboard proxy, one pointer proxy and one
\* keymap context are live, and the live ones are those the fields hold: no
\* capabilities event creates a second object or forgets one without
\* releasing it.
C36_AttachIdempotent ==
    pc = "dispatch" =>
        /\ LiveProxies("keyboard") \subseteq {wl_keyboard}
        /\ LiveProxies("pointer") \subseteq {wl_pointer}
        /\ LiveContexts \subseteq {xkb_context}

\* C37: in renderlocksession.c, whatever lock_session and unlock_session
\* calls were made and whether or not the cleanup of main has run, every lock
\* object has been destroyed at most once: unlock_session and the cleanup
\* never destroy a lock object that was destroyed before.
C37_LockDestroyedOnce ==
    prog = "renderlocksession" =>
        \A i \in DOMAIN locks : locks[i].destroys <= 1

\* the check of main that guards a request on a global
CheckOf(op) ==
    CASE op = "wl_seat_get_pointer" -> "if (!seat)"
      [] op = "wl_compositor_create_surface" -> "if (!compositor)"
      [] op = "xdg_wm_base_get_xdg_surface" -> "if (!wm_base)"
      [] op \in {"wl_shm_create_pool", "wl_cursor_theme_load"} -> "if (!shm)"
      [] OTHER -> ""

\* C38: in xdg-shell.c every request main makes on a bound global
\* (compositor, wm_base, seat, shm) comes after the check of that global and
\* is made on a global that was bound; the pointer is never requested from a
\* NULL seat.
C38_CheckedBeforeUse ==
    prog = "xdg-shell" =>
        \A i \in DOMAIN calls :
            CheckOf(calls[i].op) # "" =>
                /\ calls[i].arg # 0
                /\ \E j \in 1..(i - 1) : calls[j].op = CheckOf(calls[i].op)

====
